---- MODULE Spec2Model ----
(***************************************************************************)
(* Verification model of sovereign-mcp: the generic registry               *)
(* (mcp/lifecycle_manager.py), the session (mcp/session.py), the request   *)
(* dispatcher (mcp/server.py) and the HTTP/SSE transport (mcp/router.py).  *)
(***************************************************************************)
EXTENDS Integers, Sequences, FiniteSets, Bags, TLC

(***************************************************************************)
(* Bounds of the model.                                                    *)
(***************************************************************************)
\* longest input list handed to one registry call
MaxBatch == 2
\* most change-notification tasks scheduled and not yet run
MaxTasks == 1

\* most Session objects ever constructed
MaxObjs == 2
\* most messages ever put on the queues of the sessions
MaxMsgs == 3
\* most background tasks alive at once
MaxBg == 2
\* most SSE streams open at once
MaxStreams == 2
\* most steps of the clock
MaxTicks == 3
MaxSubs == 3
MaxNames == 3

\* identifiers of registry items
Ids == {"a", "b"}

\* the four registries MCPServer owns
RegNames == {"tools", "prompts", "resources", "resources_templates"}

None == "None"

\* what dict.get returns for a key the dict does not hold
NoItem == [id |-> None, val |-> 0]

(***************************************************************************)
(* Items of a registry: a value T together with what id_getter reads.      *)
(***************************************************************************)
Items ==
    {[id |-> "a", val |-> 1], [id |-> "a", val |-> 2], [id |-> "b", val |-> 1]}

Batches == UNION {[1..n -> Items] : n \in 0..MaxBatch}

IdLists == UNION {[1..n -> Ids] : n \in 0..MaxBatch}

GetId(item) == item.id

(***************************************************************************)
(* Python's dict keeps insertion order: a sequence of (key, item) entries  *)
(* with pairwise distinct keys.                                            *)
(***************************************************************************)
Keys(d) == {d[i].key : i \in DOMAIN d}

DictGet(d, k) ==
    IF k \in Keys(d)
    THEN d[CHOOSE i \in DOMAIN d : d[i].key = k].item
    ELSE NoItem

\* d[k] = item moved to the end instead of written in place
DictSetMoveToEnd(d, k, item) ==
    Append(SelectSeq(d, LAMBDA e : e.key # k), [key |-> k, item |-> item])

\* d[k] = item: an existing key keeps its position, a new key goes last
DictSet(d, k, item) ==
    IF k \in Keys(d)
    THEN [i \in DOMAIN d |->
            IF d[i].key = k THEN [key |-> k, item |-> item] ELSE d[i]]
    ELSE Append(d, [key |-> k, item |-> item])

\* del d[k]
DictDel(d, k) == SelectSeq(d, LAMBDA e : e.key # k)

\* the loop left after its first round
WriteFirst(d, items) ==
    IF items = << >> THEN d ELSE DictSet(d, GetId(Head(items)), Head(items))

\* for item in items: self._items[self._get_id(item)] = item
RECURSIVE WriteAll(_, _)
WriteAll(d, items) ==
    IF items = << >>
    THEN d
    ELSE WriteAll(DictSet(d, GetId(Head(items)), Head(items)), Tail(items))

\* list(self._items.values())
List(d) == [i \in DOMAIN d |-> d[i].item]

(***************************************************************************)
(* LifecycleManager methods as functions of the dict before the call:      *)
(* the dict after it, whether ValueError was raised, and how many times    *)
(* on_change was called.                                                   *)
(***************************************************************************)
Outcome(d, raised, cb) == [d |-> d, raised |-> raised, cb |-> cb]

\* the validation loop of add checking only the registry, not the batch
AddRaisesNoBatchCheck(d, items) ==
    \E i \in DOMAIN items : GetId(items[i]) \in Keys(d)

\* the validation loop of add (lines 27-34)
AddRaises(d, items) ==
    \E i \in DOMAIN items :
        \/ GetId(items[i]) \in Keys(d)
        \/ \E j \in 1..(i - 1) : GetId(items[j]) = GetId(items[i])

\* add without the early return on an empty list
LM_addNoEmptyCheck(d, items, notify) ==
    IF AddRaises(d, items)
    THEN Outcome(d, TRUE, 0)
    ELSE Outcome(WriteAll(d, items), FALSE, IF notify THEN 1 ELSE 0)

LM_add(d, items, notify) ==
    IF items = << >>
    THEN Outcome(d, FALSE, 0)
    ELSE IF AddRaises(d, items)
    THEN Outcome(d, TRUE, 0)
    ELSE Outcome(WriteAll(d, items), FALSE, IF notify THEN 1 ELSE 0)

\* the validation loop of update accepting ids the registry does not hold
UpdateRaisesNoMembership(d, items) ==
    \E i \in DOMAIN items :
        \E j \in 1..(i - 1) : GetId(items[j]) = GetId(items[i])

\* the validation loop of update (lines 46-53)
UpdateRaises(d, items) ==
    \E i \in DOMAIN items :
        \/ GetId(items[i]) \notin Keys(d)
        \/ \E j \in 1..(i - 1) : GetId(items[j]) = GetId(items[i])

LM_update(d, items, notify) ==
    IF items = << >>
    THEN Outcome(d, FALSE, 0)
    ELSE IF UpdateRaises(d, items)
    THEN Outcome(d, TRUE, 0)
    ELSE Outcome(WriteAll(d, items), FALSE, IF notify THEN 1 ELSE 0)

\* upsert calling on_change once per item written
LM_upsertPerItem(d, items, notify) ==
    Outcome(WriteAll(d, items), FALSE, IF notify THEN Len(items) ELSE 0)

LM_upsert(d, items, notify) ==
    IF items = << >>
    THEN Outcome(d, FALSE, 0)
    ELSE Outcome(WriteAll(d, items), FALSE, IF notify THEN 1 ELSE 0)

\* the loop of remove (lines 75-79): the dict and the modified flag
RECURSIVE RemoveLoop(_, _, _)
RemoveLoop(d, identifiers, modified) ==
    IF identifiers = << >>
    THEN [d |-> d, modified |-> modified]
    ELSE IF Head(identifiers) \in Keys(d)
    THEN RemoveLoop(DictDel(d, Head(identifiers)), Tail(identifiers), TRUE)
    ELSE RemoveLoop(d, Tail(identifiers), modified)

\* remove calling on_change whenever notify is set
LM_removeAlwaysNotify(d, identifiers, notify) ==
    Outcome(RemoveLoop(d, identifiers, FALSE).d, FALSE, IF notify THEN 1 ELSE 0)

LM_remove(d, identifiers, notify) ==
    IF identifiers = << >>
    THEN Outcome(d, FALSE, 0)
    ELSE LET r == RemoveLoop(d, identifiers, FALSE)
         IN  Outcome(r.d, FALSE, IF notify /\ r.modified THEN 1 ELSE 0)

\* the loop of override (lines 85-90) raises on a repeated id
OverrideRaises(items) ==
    \E i \in DOMAIN items :
        \E j \in 1..(i - 1) : GetId(items[j]) = GetId(items[i])

\* override writing into the live dict instead of a fresh one
LM_overrideInPlace(d, items, notify) ==
    IF OverrideRaises(items)
    THEN Outcome(d, TRUE, 0)
    ELSE Outcome(WriteAll(d, items), FALSE, IF notify THEN 1 ELSE 0)

LM_override(d, items, notify) ==
    IF OverrideRaises(items)
    THEN Outcome(d, TRUE, 0)
    ELSE Outcome(WriteAll(<< >>, items), FALSE, IF notify THEN 1 ELSE 0)

(***************************************************************************)
(* Session (mcp/session.py). msg_queue is the asyncio.Queue, oldest first. *)
(* enq counts the messages ever put on the queue and every message carries *)
(* the count at which it was put (seq); emitted is the log of the message  *)
(* events the SSE streams of the session have sent, by the seq of each;    *)
(* refused records that enqueue_message has returned without putting.      *)
(***************************************************************************)
NewSession(sid, t) ==
    [id |-> sid, created_at |-> t, last_accessed |-> t, msg_queue |-> << >>,
     active |-> TRUE, enq |-> 0, emitted |-> << >>, refused |-> FALSE]

\* touch leaving the session as it is
TouchNothing(s, t) == s

\* touch (lines 18-19)
Touch(s, t) == [s EXCEPT !.last_accessed = t]

\* enqueue_message putting the message at the head of the queue
EnqueueMessageFront(s, m) ==
    IF ~s.active
    THEN [s EXCEPT !.refused = TRUE]
    ELSE [s EXCEPT !.msg_queue = <<[m EXCEPT !.seq = s.enq + 1]>> \o @,
                   !.enq = @ + 1]

EnqueueMessage(s, m) ==
    IF ~s.active
    THEN [s EXCEPT !.refused = TRUE]
    ELSE [s EXCEPT !.msg_queue = Append(@, [m EXCEPT !.seq = s.enq + 1]),
                   !.enq = @ + 1]

RECURSIVE EnqueueAll(_, _)
EnqueueAll(s, ms) ==
    IF ms = << >> THEN s ELSE EnqueueAll(EnqueueMessage(s, Head(ms)), Tail(ms))

\* terminate that clears the flag and leaves the queue
TerminateNoDrain(s) == [s EXCEPT !.active = FALSE]

Terminate(s) == [s EXCEPT !.active = FALSE, !.msg_queue = << >>]

(***************************************************************************)
(* Wire objects (mcp/schemas). An object is a pydantic model until         *)
(* model_dump turns it into a dict (dumped).                               *)
(***************************************************************************)
INVALID_REQUEST == -32600
METHOD_NOT_FOUND == -32601
INVALID_PARAMS == -32602
INTERNAL_ERROR == -32603
PARSE_ERROR == -32700
RESOURCE_NOT_FOUND == -32002

Obj(type, id, code, isError, text) ==
    [type |-> type, id |-> id, code |-> code, isError |-> isError,
     text |-> text, result |-> << >>, dumped |-> FALSE, seq |-> 0]

\* the value None where an object is expected
NoneObj == Obj("None", None, 0, FALSE, "")

\* an exception raised instead of an object: pydantic's ValidationError, or
\* any other Exception
ValidationError == Obj("ValidationError", None, 0, FALSE, "")

JsonRpcResponse(id) == Obj("JsonRpcResponse", id, 0, FALSE, "")

JsonRpcError(id, code, text) == Obj("JsonRpcError", id, code, FALSE, text)

\* ToolsResponse, PromptsResponse, ResourcesResponse declare
\* id: Union[str, int]: building one with id None raises ValidationError
TypedResponse(type, id, isError, text) ==
    IF id = None THEN ValidationError ELSE Obj(type, id, 0, isError, text)

ToolsResponse(id, isError, text) == TypedResponse("ToolsResponse", id, isError, text)

PromptsResponse(id) == TypedResponse("PromptsResponse", id, FALSE, "")

ResourcesResponse(id) == TypedResponse("ResourcesResponse", id, FALSE, "")

ProgressNotification(token) ==
    [Obj("ProgressNotification", None, 0, FALSE, "") EXCEPT !.text = token]

\* ToolsChangedNotification, PromptsChangedResponse, ResourcesChangedNotification
ChangedNotification(r) == Obj("ChangedNotification", None, 0, FALSE, r)

ModelDump(obj) == [obj EXCEPT !.dumped = TRUE]

Envelopes ==
    {"JsonRpcResponse", "JsonRpcError", "ToolsResponse", "PromptsResponse",
     "ResourcesResponse"}

(***************************************************************************)
(* JsonRpcRequest: method, id (None when absent) and params, None when     *)
(* absent or the object with its name, uri, progressToken and              *)
(* _meta.progressToken (each None when absent). The token "0" is the       *)
(* integer 0 and "" the empty string; "tok" and "mtok" are any other.      *)
(***************************************************************************)
Req(method, id, params) ==
    [kind |-> "request", method |-> method, id |-> id, params |-> params]

ParamsMeta(name, uri, token, meta) ==
    [isDict |-> TRUE, name |-> name, uri |-> uri, token |-> token, meta |-> meta]

Params(name, uri, token) == ParamsMeta(name, uri, token, None)

\* params absent
NoParams ==
    [isDict |-> FALSE, name |-> None, uri |-> None, token |-> None, meta |-> None]

\* a _meta that is present and is not an object (null, a string, a list)
NotObject == "notobject"

\* line 242 raises AttributeError: the "or" reaches
\* params.get("_meta", {}).get and _meta has no get
MetaRaises(p) == p.token \in {None, "0", ""} /\ p.meta = NotObject

\* the values Python's "or" passes over
Falsy == {None, "0", ""}

\* the token both keys are read for, whichever is present
ProgressTokenEither(p) == IF p.token # None THEN p.token ELSE p.meta

\* progress_token of _handle_tool_call (line 242):
\* params.get("progressToken") or params.get("_meta", {}).get("progressToken")
ProgressToken(p) == IF p.token \notin Falsy THEN p.token ELSE p.meta

\* a body that is no JsonRpcRequest: "notjson", "array" or "invalid"
Malformed(kind) ==
    [kind |-> kind, method |-> None, id |-> None, params |-> NoParams]

\* process_request without its except clause: the exception escapes
RecoverNothing(id, x) == x

\* the except clause of process_request (lines 127-132)
Recover(id, x) ==
    IF x = ValidationError
    THEN JsonRpcError(id, INTERNAL_ERROR, "Internal Server Error")
    ELSE x

\* _handle_resources_read
HandleResourcesRead(rg, req) ==
    IF ~req.params.isDict
    THEN JsonRpcError(req.id, INVALID_PARAMS, "Params must be a dictionary")
    ELSE IF req.params.uri = None
    THEN JsonRpcError(req.id, INVALID_PARAMS, "Missing 'uri'")
    ELSE IF DictGet(rg["resources"], req.params.uri) = NoItem
    THEN JsonRpcError(req.id, RESOURCE_NOT_FOUND, "Resource not found")
    ELSE ResourcesResponse(req.id)

\* a list response carrying the list its handler read from the registry
\* (the exception when the response could not be built)
WithResult(x, listed) ==
    IF x = ValidationError THEN x ELSE [x EXCEPT !.result = listed]

\* process_request for the methods that never await: the items it yields
\* (None is the item notifications/initialized yields)
ProcessRequest(rg, req) ==
    CASE req.method = "initialize" -> <<JsonRpcResponse(req.id)>>
      [] req.method = "notifications/initialized" -> <<NoneObj>>
      [] req.method = "ping" -> <<JsonRpcResponse(req.id)>>
      [] req.method = "tools/list" ->
            <<Recover(req.id, WithResult(ToolsResponse(req.id, FALSE, "list"),
                                         List(rg["tools"])))>>
      [] req.method = "prompts/list" ->
            <<Recover(req.id, WithResult(PromptsResponse(req.id),
                                         List(rg["prompts"])))>>
      [] req.method = "resources/list" ->
            <<Recover(req.id, WithResult(ResourcesResponse(req.id),
                                         List(rg["resources"])))>>
      [] req.method = "resources/read" ->
            <<Recover(req.id, HandleResourcesRead(rg, req))>>
      [] req.method = "resources/templates/list" ->
            <<Recover(req.id, ResourcesResponse(req.id))>>
      [] OTHER ->
            <<JsonRpcError(req.id, METHOD_NOT_FOUND, "not supported")>>

\* the loop of _process_background: what it enqueues for the items yielded
RECURSIVE Dumped(_)
Dumped(items) ==
    IF items = << >>
    THEN << >>
    ELSE IF Head(items) = NoneObj
    THEN Dumped(Tail(items))
    ELSE <<ModelDump(Head(items))>> \o Dumped(Tail(items))

(***************************************************************************)
(* State.                                                                  *)
(*   reg      the _items dict of each registry of MCPServer                *)
(*   last     the most recent registry call: its name, registry, inputs,   *)
(*            the dict before it, whether it raised, how often it called   *)
(*            on_change, and what it returned                              *)
(*   notifyQ  the notify_clients tasks created by the change callbacks and *)
(*            not yet run, oldest first (the event loop runs tasks in the  *)
(*            order of their creation)                                     *)
(*   objs     every Session object ever constructed                        *)
(*   table    MCPRouter.sessions: session id -> index in objs              *)
(*   tasks    the _process_background tasks created and not yet finished,  *)
(*            a bag: each with its session, request and position           *)
(*   streams  the sse_generators running, a bag: each with its session and *)
(*            position                                                     *)
(*   now      time.time()                                                  *)
(*   http     the response to the most recent HTTP request                 *)
(*   observe  which of the two records a specification keeps: "call" for   *)
(*            last, "http" for http; fixed by the initial state            *)
(*   app      the application: "serving", or "shutdown" once its shutdown  *)
(*            handler has run                                              *)
(*   subs     MCPServer._notification_handlers: what kind of handler each  *)
(*            one subscribed is, in the order of subscription              *)
(*   notified the most recent run of notify_clients: the handlers it was   *)
(*            run with, those it called, those that ran to completion,     *)
(*            and whether an exception left it                             *)
(***************************************************************************)
VARIABLES reg, last, notifyQ, objs, table, tasks, streams, now, http, observe,
          app, subs, notified

routerVars == <<objs, table, tasks, streams, now, http>>

vars == <<reg, last, notifyQ, objs, table, tasks, streams, now, http, observe, app, subs, notified>>

NoCall ==
    [op |-> "none", r |-> "tools", items |-> << >>, ids |-> << >>,
     notify |-> FALSE, pre |-> << >>, raised |-> FALSE, cb |-> 0, ret |-> << >>]

Call(op, r, items, ids, notify, pre, res, ret) ==
    IF "call" \in observe
    THEN [op |-> op, r |-> r, items |-> items, ids |-> ids, notify |-> notify,
          pre |-> pre, raised |-> res.raised, cb |-> res.cb, ret |-> ret]
    ELSE NoCall

\* MCPServer._on_*_changed: the tasks cb calls of r's callback create
OnChange(r, cb) ==
    IF r = "resources_templates"
    THEN << >>
    ELSE [i \in 1..cb |-> r]

\* an HTTP response: the status, the JSON-RPC error code of its body (0 when
\* it has none) and the Mcp-Session-Id header it carries
NoResponse == [verb |-> "none", status |-> 0, code |-> 0, sid |-> None]

Response(verb, status, code, sid) ==
    IF "http" \in observe
    THEN [verb |-> verb, status |-> status, code |-> code, sid |-> sid]
    ELSE NoResponse

\* session ids clients choose, and the values uuid.uuid4() returns, in order
ClientIds == {"s1"}

UuidPool == <<"u1", "u2", "u3", "u4">>

AllIds == ClientIds \cup {UuidPool[i] : i \in DOMAIN UuidPool}

\* str(uuid.uuid4()): a value never returned before
Uuid4 ==
    UuidPool[1 + Cardinality({o \in DOMAIN objs :
                                \E i \in DOMAIN UuidPool : objs[o].id = UuidPool[i]})]

\* the state after MCPServer and MCPRouter are constructed
\* notify_clients has not run
NoRun == [hs |-> << >>, invoked |-> {}, completed |-> {}, escaped |-> FALSE]

Start ==
    /\ reg = [r \in RegNames |-> << >>]
    /\ last = NoCall
    /\ notifyQ = << >>
    /\ objs = << >>
    /\ table = [sid \in AllIds |-> 0]
    /\ tasks = EmptyBag
    /\ streams = EmptyBag
    /\ now = 0
    /\ http = NoResponse
    /\ app = "serving"
    /\ subs = <<"broadcast">>
    /\ notified = NoRun

Init == Start /\ observe = {"call"}

InitPlain == Start /\ observe = {}

InitHttp == Start /\ observe = {"http"}

\* one call of a mutating method on registry r, with its outcome res
Mutate(op, r, items, ids, notify, res) ==
    /\ Len(notifyQ) < MaxTasks
    /\ reg' = [reg EXCEPT ![r] = res.d]
    /\ last' = Call(op, r, items, ids, notify, reg[r], res, << >>)
    /\ notifyQ' = notifyQ \o OnChange(r, res.cb)
    /\ UNCHANGED <<routerVars, observe, app, subs, notified>>

Add(r, items, notify) ==
    Mutate("add", r, items, << >>, notify, LM_add(reg[r], items, notify))

Update(r, items, notify) ==
    Mutate("update", r, items, << >>, notify, LM_update(reg[r], items, notify))

Upsert(r, items, notify) ==
    Mutate("upsert", r, items, << >>, notify, LM_upsert(reg[r], items, notify))

Remove(r, ids, notify) ==
    Mutate("remove", r, << >>, ids, notify, LM_remove(reg[r], ids, notify))

Override(r, items, notify) ==
    Mutate("override", r, items, << >>, notify,
           LM_override(reg[r], items, notify))

\* LifecycleManager.list
ListCall(r) ==
    /\ last' = Call("list", r, << >>, << >>, FALSE, reg[r],
                    Outcome(reg[r], FALSE, 0), List(reg[r]))
    /\ UNCHANGED <<reg, notifyQ, routerVars, observe, app, subs, notified>>

(***************************************************************************)
(* Transport (mcp/router.py).                                              *)
(***************************************************************************)
One(x) == SetToBag({x})

RECURSIVE TotalEnq(_)
\* the messages put on the queues of the sessions os so far
TotalEnq(os) == IF os = << >> THEN 0 ELSE Head(os).enq + TotalEnq(Tail(os))

\* the model's bound on the messages ever queued lets n more be put on o
CanPut(o, n) == ~objs[o].active \/ TotalEnq(objs) + n <= MaxMsgs

\* _broadcast_event returning after the first session it enqueued on
BroadcastFirst(os, tbl, notification) ==
    LET live == {o \in DOMAIN os : (\E sid \in AllIds : tbl[sid] = o) /\ os[o].active}
    IN  [o \in DOMAIN os |->
            IF o \in live /\ \A o2 \in live : o <= o2
            THEN EnqueueMessage(os[o], notification)
            ELSE os[o]]

\* _broadcast_event (lines 35-41)
Broadcast(os, tbl, notification) ==
    [o \in DOMAIN os |->
        IF (\E sid \in AllIds : tbl[sid] = o) /\ os[o].active
        THEN EnqueueMessage(os[o], notification)
        ELSE os[o]]

\* the oldest notify_clients task runs: gather calls the one subscribed
\* handler, _broadcast_event, which does not await
RunNotify ==
    /\ notifyQ # << >>
    /\ TotalEnq(objs) + Cardinality({sid \in AllIds : table[sid] # 0}) <= MaxMsgs
    /\ objs' = Broadcast(objs, table, ChangedNotification(Head(notifyQ)))
    /\ notifyQ' = Tail(notifyQ)
    /\ UNCHANGED <<reg, last, table, tasks, streams, now, http, observe, app, subs, notified>>

\* what a subscribed handler does when notify_clients runs it: the router's
\* _broadcast_event, a coroutine function that completes, one whose
\* coroutine raises when it runs, or a callable that raises when it is called
HandlerKinds == {"broadcast", "ok", "raise_await", "raise_call"}

\* subscribe (server.py lines 54-55)
Subscribe(kind) ==
    /\ Len(subs) < MaxSubs
    /\ subs' = Append(subs, kind)
    /\ UNCHANGED <<reg, last, notifyQ, objs, table, tasks, streams, now, http,
                   observe, app, notified>>

\* the first handler of hs that raises when called, 0 when there is none
FirstRaisingCall(hs) ==
    IF \E i \in DOMAIN hs : hs[i] = "raise_call"
    THEN CHOOSE i \in DOMAIN hs :
            hs[i] = "raise_call" /\ \A j \in 1..(i - 1) : hs[j] # "raise_call"
    ELSE 0

\* notify_clients (server.py lines 57-64) run with handlers hs: the generator
\* expression calls the handlers in order while the arguments of gather are
\* collected; an exception of a call ends the collecting, gather is not
\* reached and the coroutines made so far are never run. Otherwise gather
\* runs every coroutine and, with return_exceptions, returns what they raise.
NotifyRun(hs) ==
    LET k == FirstRaisingCall(hs)
    IN  [hs |-> hs,
         invoked |-> IF k = 0 THEN DOMAIN hs ELSE 1..k,
         completed |-> IF k = 0
                       THEN {i \in DOMAIN hs : hs[i] \in {"broadcast", "ok"}}
                       ELSE {},
         escaped |-> k # 0]

\* the oldest notify_clients task runs, with the handlers subscribed
NotifyClients ==
    LET run == NotifyRun(subs)
    IN  /\ notifyQ # << >>
        /\ TotalEnq(objs) + Cardinality({sid \in AllIds : table[sid] # 0}) <= MaxMsgs
        /\ notified' = run
        /\ objs' = IF \E i \in run.completed : subs[i] = "broadcast"
                   THEN Broadcast(objs, table, ChangedNotification(Head(notifyQ)))
                   ELSE objs
        /\ notifyQ' = Tail(notifyQ)
        /\ UNCHANGED <<reg, last, table, tasks, streams, now, http, observe, app,
                       subs>>

\* _handle_get (lines 55-72). The generator it hands to StreamingResponse
\* starts at "connected": up to its first yield it reads and writes nothing.
HandleGet(hdr) ==
    LET sid == IF hdr = None THEN Uuid4 ELSE hdr
        isNew == table[sid] = 0
        o == IF isNew THEN Len(objs) + 1 ELSE table[sid]
        objs1 == IF isNew THEN Append(objs, NewSession(sid, now)) ELSE objs
    IN  /\ BagCardinality(streams) < MaxStreams
        /\ isNew => Len(objs) < MaxObjs
        /\ objs' = [objs1 EXCEPT ![o] = Touch(@, now)]
        /\ table' = [table EXCEPT ![sid] = o]
        /\ streams' = streams (+) One([obj |-> o, pc |-> "connected", held |-> << >>])
        /\ http' = Response("GET", 200, 0, sid)
        /\ UNCHANGED <<reg, last, notifyQ, tasks, now, observe, app, subs, notified>>

\* _create_session constructing a Session whether or not the id has one
CreateSessionFresh(req, hdr) ==
    LET sid == IF hdr = None THEN Uuid4 ELSE hdr
    IN  /\ Len(objs) < MaxObjs
        /\ objs' = Append(objs, NewSession(sid, now))
        /\ table' = [table EXCEPT ![sid] = Len(objs) + 1]
        /\ http' = Response("POST", 200, 0, sid)
        /\ UNCHANGED <<reg, last, notifyQ, tasks, streams, now, observe, app, subs, notified>>

\* _create_session answering in the HTTP body and on the session's queue
CreateSessionQueued(req, hdr) ==
    LET sid == IF hdr = None THEN Uuid4 ELSE hdr
        isNew == table[sid] = 0
        o == IF isNew THEN Len(objs) + 1 ELSE table[sid]
        objs1 == IF isNew THEN Append(objs, NewSession(sid, now)) ELSE objs
        rpc_resp == Head(ProcessRequest(reg, req))
    IN  /\ isNew => Len(objs) < MaxObjs
        /\ TotalEnq(objs) + 1 <= MaxMsgs
        /\ objs' = [objs1 EXCEPT ![o] = EnqueueAll(@, Dumped(<<rpc_resp>>))]
        /\ table' = IF isNew THEN [table EXCEPT ![sid] = Len(objs) + 1] ELSE table
        /\ http' = Response("POST", 200, 0, sid)
        /\ UNCHANGED <<reg, last, notifyQ, tasks, streams, now, observe, app, subs, notified>>

\* _create_session (lines 131-149); the first item process_request yields
\* for initialize is a JsonRpcResponse
CreateSession(req, hdr) ==
    LET sid == IF hdr = None THEN Uuid4 ELSE hdr
        isNew == table[sid] = 0
        rpc_resp == Head(ProcessRequest(reg, req))
    IN  /\ isNew => Len(objs) < MaxObjs
        /\ objs' = IF isNew THEN Append(objs, NewSession(sid, now)) ELSE objs
        /\ table' = IF isNew THEN [table EXCEPT ![sid] = Len(objs) + 1] ELSE table
        /\ http' = IF rpc_resp = NoneObj
                   THEN Response("POST", 500, 0, None)
                   ELSE Response("POST", 200, 0, sid)
        /\ UNCHANGED <<reg, last, notifyQ, tasks, streams, now, observe, app, subs, notified>>

\* a POST answered without touching any state
Answer(status, code) ==
    /\ http' = Response("POST", status, code, None)
    /\ UNCHANGED <<reg, last, notifyQ, objs, table, tasks, streams, now, observe, app, subs, notified>>

NewTask(o, req) ==
    [obj |-> o, req |-> req, pc |-> "start", iter |-> "none", deadline |-> 0]

\* _handle_post (lines 74-114). body is "notjson" (request.json() raises),
\* "array", "invalid" (JsonRpcRequest(**body) raises, which nothing catches:
\* the framework answers 500) or a JsonRpcRequest.
HandlePost(ctype, body, hdr) ==
    IF ctype # "application/json" THEN Answer(415, 0)
    ELSE IF body.kind = "notjson" THEN Answer(400, PARSE_ERROR)
    ELSE IF body.kind = "array" THEN Answer(400, INVALID_REQUEST)
    ELSE IF body.kind = "invalid" THEN Answer(500, 0)
    ELSE IF body.method = "initialize" THEN CreateSession(body, hdr)
    ELSE IF hdr = None THEN Answer(400, 0)
    ELSE IF table[hdr] = 0 THEN Answer(404, 0)
    ELSE /\ BagCardinality(tasks) < MaxBg
         /\ objs' = [objs EXCEPT ![table[hdr]] = Touch(@, now)]
         /\ tasks' = tasks (+) One(NewTask(table[hdr], body))
         /\ http' = Response("POST", 202, 0, None)
         /\ UNCHANGED <<reg, last, notifyQ, table, streams, now, observe, app, subs, notified>>

\* _handle_delete terminating the session and leaving it in the table
HandleDeleteKeep(hdr) ==
    IF hdr = None
    THEN /\ http' = Response("DELETE", 400, 0, None)
         /\ UNCHANGED <<reg, last, notifyQ, objs, table, tasks, streams, now, observe, app, subs, notified>>
    ELSE IF table[hdr] = 0
    THEN /\ http' = Response("DELETE", 404, 0, None)
         /\ UNCHANGED <<reg, last, notifyQ, objs, table, tasks, streams, now, observe, app, subs, notified>>
    ELSE /\ objs' = [objs EXCEPT ![table[hdr]] = Terminate(@)]
         /\ http' = Response("DELETE", 200, 0, None)
         /\ UNCHANGED <<reg, last, notifyQ, table, tasks, streams, now, observe, app, subs, notified>>

\* _handle_delete (lines 151-162)
HandleDelete(hdr) ==
    IF hdr = None
    THEN /\ http' = Response("DELETE", 400, 0, None)
         /\ UNCHANGED <<reg, last, notifyQ, objs, table, tasks, streams, now, observe, app, subs, notified>>
    ELSE IF table[hdr] = 0
    THEN /\ http' = Response("DELETE", 404, 0, None)
         /\ UNCHANGED <<reg, last, notifyQ, objs, table, tasks, streams, now, observe, app, subs, notified>>
    ELSE /\ table' = [table EXCEPT ![hdr] = 0]
         /\ objs' = [objs EXCEPT ![table[hdr]] = Terminate(@)]
         /\ http' = Response("DELETE", 200, 0, None)
         /\ UNCHANGED <<reg, last, notifyQ, tasks, streams, now, observe, app, subs, notified>>

\* the clock advances by d seconds
Tick(d) ==
    /\ now + d <= MaxTicks * d
    /\ now' = now + d
    /\ UNCHANGED <<reg, last, notifyQ, objs, table, tasks, streams, http, observe, app, subs, notified>>

SESSION_TIMEOUT == 86400

\* the test of one session in _monitor_sessions, accepting the cutoff itself
StaleOrAtCutoff(s, cutoff) == s.last_accessed <= cutoff

\* the test of one session in _monitor_sessions (line 202)
Stale(s, cutoff) == s.last_accessed < cutoff

\* one iteration of _monitor_sessions terminating the stale sessions and
\* leaving them in the table
MonitorSessionsKeep ==
    LET cutoff == now - SESSION_TIMEOUT
        gone == {sid \in AllIds : table[sid] # 0 /\ Stale(objs[table[sid]], cutoff)}
    IN  /\ objs' = [o \in DOMAIN objs |->
                        IF \E sid \in gone : table[sid] = o
                        THEN Terminate(objs[o])
                        ELSE objs[o]]
        /\ UNCHANGED <<reg, last, notifyQ, table, tasks, streams, now, http, observe, app, subs, notified>>

\* one iteration of _monitor_sessions after its sleep (lines 198-205): no
\* await between reading the clock and the end of the loop
MonitorSessions ==
    LET cutoff == now - SESSION_TIMEOUT
        gone == {sid \in AllIds : table[sid] # 0 /\ Stale(objs[table[sid]], cutoff)}
    IN  /\ objs' = [o \in DOMAIN objs |->
                        IF \E sid \in gone : table[sid] = o
                        THEN Terminate(objs[o])
                        ELSE objs[o]]
        /\ table' = [sid \in AllIds |-> IF sid \in gone THEN 0 ELSE table[sid]]
        /\ UNCHANGED <<reg, last, notifyQ, tasks, streams, now, http, observe, app, subs, notified>>

(***************************************************************************)
(* _process_background (lines 116-129) driving process_request. A task     *)
(* runs from one await to the next in one step.                            *)
(***************************************************************************)
\* Tool.timeout, in seconds
ToolTimeout == 60

\* task t ends, enqueueing on the session that is in the table under the id
\* of its own when there is one
BgFinishById(t, items) ==
    LET ms == Dumped(items)
        cur == table[objs[t.obj].id]
        o == IF cur # 0 THEN cur ELSE t.obj
    IN  /\ CanPut(o, Len(ms))
        /\ objs' = [objs EXCEPT ![o] = EnqueueAll(@, ms)]
        /\ tasks' = tasks (-) One(t)
        /\ UNCHANGED <<reg, last, notifyQ, table, streams, now, http, observe, app, subs, notified>>

\* task t enqueues what it was yielded and ends
BgFinish(t, items) ==
    LET ms == Dumped(items)
    IN  /\ CanPut(t.obj, Len(ms))
        /\ objs' = [objs EXCEPT ![t.obj] = EnqueueAll(@, ms)]
        /\ tasks' = tasks (-) One(t)
        /\ UNCHANGED <<reg, last, notifyQ, table, streams, now, http, observe, app, subs, notified>>

\* the same with the deadline counted anew from every await
BgAwaitRenew(t, items, t2) ==
    LET ms == Dumped(items)
    IN  /\ CanPut(t.obj, Len(ms))
        /\ objs' = [objs EXCEPT ![t.obj] = EnqueueAll(@, ms)]
        /\ tasks' = (tasks (-) One(t))
                        (+) One([t2 EXCEPT !.deadline = now + ToolTimeout])
        /\ UNCHANGED <<reg, last, notifyQ, table, streams, now, http, observe, app, subs, notified>>

\* task t enqueues what it was yielded and awaits again, as task t2
BgAwait(t, items, t2) ==
    LET ms == Dumped(items)
    IN  /\ CanPut(t.obj, Len(ms))
        /\ objs' = [objs EXCEPT ![t.obj] = EnqueueAll(@, ms)]
        /\ tasks' = (tasks (-) One(t)) (+) One(t2)
        /\ UNCHANGED <<reg, last, notifyQ, table, streams, now, http, observe, app, subs, notified>>

\* tool failures reported as JSON-RPC error envelopes
ToolEnvelopeAsError(id, isError, text) ==
    IF isError
    THEN JsonRpcError(id, INTERNAL_ERROR, text)
    ELSE Recover(id, ToolsResponse(id, isError, text))

\* a ToolsResponse of _handle_tool_call as process_request yields it: with
\* id None the constructor raises, inside the try the except clause raises
\* again, and the except clause of process_request yields the internal error
ToolEnvelope(id, isError, text) == Recover(id, ToolsResponse(id, isError, text))

\* what tool.func(args) does: returns an async iterator, an awaitable,
\* something else, or raises
ToolReturns == {"asyncgen", "awaitable", "other", "raise"}

\* _handle_tool_call up to its first await (lines 235-295)
ToolCallStart(t, raw) ==
    LET req == t.req
        p == req.params
    IN  IF ~p.isDict
        THEN BgFinish(t, <<JsonRpcError(req.id, INVALID_PARAMS,
                                        "Params must be a dictionary")>>)
        ELSE IF MetaRaises(p)
        THEN BgFinish(t, <<Recover(req.id, ValidationError)>>)
        ELSE IF p.name = None
        THEN BgFinish(t, <<JsonRpcError(req.id, INVALID_PARAMS, "Missing 'name'")>>)
        ELSE IF DictGet(reg["tools"], p.name) = NoItem
        THEN BgFinish(t, <<ToolEnvelope(req.id, TRUE, "not found")>>)
        ELSE CASE raw = "other" ->
                    BgFinish(t, <<ToolEnvelope(req.id, TRUE,
                                               "Invalid tool return type")>>)
               [] raw = "raise" ->
                    BgFinish(t, <<ToolEnvelope(req.id, TRUE, "Internal Tool Error")>>)
               [] OTHER ->
                    BgAwait(t, << >>, [t EXCEPT !.pc = "anext", !.iter = raw,
                                                !.deadline = now + ToolTimeout])

\* what awaiting iterator.__anext__() under the deadline ends in: an
\* element, the end of the iterator or an exception while the deadline lies
\* ahead, the timeout of wait_for once it is reached
ToolOutcomes ==
    {"progress", "unknown", "result", "error_result", "stop", "raise", "timeout"}

\* the loop of _handle_tool_call without the break after a ToolResult: the
\* iterator is consumed further
ToolCallNextNoBreak(t, out) ==
    LET id == t.req.id
        token == ProgressToken(t.req.params)
        live == t.iter \in {"asyncgen", "awaitable"}
        after == IF t.iter = "awaitable" THEN "exhausted" ELSE t.iter
    IN  /\ t.pc = "anext"
        /\ (out = "timeout") <=> (now >= t.deadline)
        /\ CASE out = "progress" ->
                    /\ live
                    /\ BgAwait(t, IF token # None
                                  THEN <<ProgressNotification(token)>>
                                  ELSE << >>,
                               [t EXCEPT !.iter = after])
             [] out = "unknown" ->
                    /\ live
                    /\ BgAwait(t, << >>, [t EXCEPT !.iter = after])
             [] out = "result" ->
                    /\ live
                    /\ BgAwait(t, <<ToolEnvelope(id, FALSE, "result")>>,
                               [t EXCEPT !.iter = after])
             [] out = "error_result" ->
                    /\ live
                    /\ BgAwait(t, <<ToolEnvelope(id, TRUE, "result")>>,
                               [t EXCEPT !.iter = after])
             [] out = "stop" ->
                    /\ t.iter \in {"asyncgen", "exhausted"}
                    /\ BgFinish(t, <<ToolEnvelope(id, TRUE,
                                        "finished without returning a result")>>)
             [] out = "raise" ->
                    /\ live
                    /\ BgFinish(t, <<ToolEnvelope(id, TRUE, "Internal Tool Error")>>)
             [] out = "timeout" ->
                    BgFinish(t, <<ToolEnvelope(id, TRUE, "Tool execution timed out")>>)

\* one round of the loop with anext() awaited without wait_for
ToolCallNextNoDeadline(t, out) ==
    LET id == t.req.id
        token == ProgressToken(t.req.params)
        live == t.iter \in {"asyncgen", "awaitable"}
        after == IF t.iter = "awaitable" THEN "exhausted" ELSE t.iter
    IN  /\ t.pc = "anext"
        /\ out # "timeout"
        /\ CASE out = "progress" ->
                    /\ live
                    /\ BgAwait(t, IF token # None
                                  THEN <<ProgressNotification(token)>>
                                  ELSE << >>,
                               [t EXCEPT !.iter = after])
             [] out = "unknown" ->
                    /\ live
                    /\ BgAwait(t, << >>, [t EXCEPT !.iter = after])
             [] out = "result" ->
                    /\ live
                    /\ BgFinish(t, <<ToolEnvelope(id, FALSE, "result")>>)
             [] out = "error_result" ->
                    /\ live
                    /\ BgFinish(t, <<ToolEnvelope(id, TRUE, "result")>>)
             [] out = "stop" ->
                    /\ t.iter \in {"asyncgen", "exhausted"}
                    /\ BgFinish(t, <<ToolEnvelope(id, TRUE,
                                        "finished without returning a result")>>)
             [] out = "raise" ->
                    /\ live
                    /\ BgFinish(t, <<ToolEnvelope(id, TRUE, "Internal Tool Error")>>)
             [] out = "timeout" ->
                    BgFinish(t, <<ToolEnvelope(id, TRUE, "Tool execution timed out")>>)

\* one round of the loop of _handle_tool_call (lines 286-351)
ToolCallNext(t, out) ==
    LET id == t.req.id
        token == ProgressToken(t.req.params)
        live == t.iter \in {"asyncgen", "awaitable"}
        after == IF t.iter = "awaitable" THEN "exhausted" ELSE t.iter
    IN  /\ t.pc = "anext"
        /\ (out = "timeout") <=> (now >= t.deadline)
        /\ CASE out = "progress" ->
                    /\ live
                    /\ BgAwait(t, IF token # None
                                  THEN <<ProgressNotification(token)>>
                                  ELSE << >>,
                               [t EXCEPT !.iter = after])
             [] out = "unknown" ->
                    /\ live
                    /\ BgAwait(t, << >>, [t EXCEPT !.iter = after])
             [] out = "result" ->
                    /\ live
                    /\ BgFinish(t, <<ToolEnvelope(id, FALSE, "result")>>)
             [] out = "error_result" ->
                    /\ live
                    /\ BgFinish(t, <<ToolEnvelope(id, TRUE, "result")>>)
             [] out = "stop" ->
                    /\ t.iter \in {"asyncgen", "exhausted"}
                    /\ BgFinish(t, <<ToolEnvelope(id, TRUE,
                                        "finished without returning a result")>>)
             [] out = "raise" ->
                    /\ live
                    /\ BgFinish(t, <<ToolEnvelope(id, TRUE, "Internal Tool Error")>>)
             [] out = "timeout" ->
                    BgFinish(t, <<ToolEnvelope(id, TRUE, "Tool execution timed out")>>)

\* _handle_prompts_get up to its await (lines 196-214)
PromptsGetStart(t) ==
    LET req == t.req
        p == req.params
    IN  IF ~p.isDict
        THEN BgFinish(t, <<JsonRpcError(req.id, INVALID_PARAMS,
                                        "Params must be a dictionary")>>)
        ELSE IF p.name = None
        THEN BgFinish(t, <<JsonRpcError(req.id, INVALID_PARAMS, "Missing 'name'")>>)
        ELSE IF DictGet(reg["prompts"], p.name) = NoItem
        THEN BgFinish(t, <<JsonRpcError(req.id, INVALID_PARAMS, "not found")>>)
        ELSE BgAwait(t, << >>, [t EXCEPT !.pc = "prompt"])

\* what awaiting prompt.func(arguments) under prompt.timeout ends in
PromptOutcomes == {"result", "raise", "timeout"}

\* the rest of _handle_prompts_get (lines 210-221)
PromptsGetDone(t, out) ==
    LET id == t.req.id
    IN  /\ t.pc = "prompt"
        /\ CASE out = "result" -> BgFinish(t, <<Recover(id, PromptsResponse(id))>>)
             [] out = "raise" -> BgFinish(t, <<Recover(id, ValidationError)>>)
             [] out = "timeout" ->
                    BgFinish(t, <<JsonRpcError(id, INTERNAL_ERROR, "timed out")>>)

\* task t starts: process_request up to its first await; raw is what the
\* tool's function does when the request is a tools/call that reaches it
BgStart(t, raw) ==
    /\ t.pc = "start"
    /\ CASE t.req.method = "tools/call" -> ToolCallStart(t, raw)
         [] t.req.method = "prompts/get" -> PromptsGetStart(t)
         [] OTHER -> BgFinish(t, ProcessRequest(reg, t.req))

(***************************************************************************)
(* sse_generator (lines 164-188). A stream is suspended at its first yield *)
(* ("connected"), at the yield of a message event or of a ping ("yielded") *)
(* or in queue.get() ("waiting"); a stream that ended is gone.             *)
(***************************************************************************)
\* the client asks for the next chunk: touch after a message or a ping, then
\* the test of the loop, then the await of queue.get()
SseResume(st) ==
    LET touched == IF st.pc = "yielded"
                   THEN [objs EXCEPT ![st.obj] = Touch(@, now)]
                   ELSE objs
    IN  /\ st.pc \in {"connected", "yielded"}
        /\ objs' = touched
        /\ streams' = IF objs[st.obj].active
                      THEN (streams (-) One(st)) (+) One([st EXCEPT !.pc = "waiting"])
                      ELSE streams (-) One(st)
        /\ UNCHANGED <<reg, last, notifyQ, table, tasks, now, http, observe, app, subs, notified>>

\* queue.get() returns msg; json.dumps(msg) raises on what is not a dict and
\* ends the stream; otherwise the message event is yielded
SseGet(st) ==
    LET o == st.obj
        msg == Head(objs[o].msg_queue)
    IN  /\ st.pc = "waiting"
        /\ objs[o].msg_queue # << >>
        /\ IF msg.dumped
           THEN /\ objs' = [objs EXCEPT ![o].msg_queue = Tail(@),
                                        ![o].emitted = Append(@, msg.seq)]
                /\ streams' = (streams (-) One(st)) (+) One([st EXCEPT !.pc = "yielded"])
           ELSE /\ objs' = [objs EXCEPT ![o].msg_queue = Tail(@)]
                /\ streams' = streams (-) One(st)
        /\ UNCHANGED <<reg, last, notifyQ, table, tasks, now, http, observe, app, subs, notified>>

\* asyncio.wait_for before Python 3.12 runs queue.get() in a task of its own:
\* that task takes msg from the queue, and the generator is resumed with it
\* some iterations of the event loop later
SseDequeue(st) ==
    LET o == st.obj
        msg == Head(objs[o].msg_queue)
    IN  /\ st.pc = "waiting"
        /\ objs[o].msg_queue # << >>
        /\ objs' = [objs EXCEPT ![o].msg_queue = Tail(@)]
        /\ streams' = (streams (-) One(st))
                        (+) One([st EXCEPT !.pc = "got", !.held = <<msg>>])
        /\ UNCHANGED <<reg, last, notifyQ, table, tasks, now, http, observe, app, subs, notified>>

\* the generator is resumed with the message wait_for returns: json.dumps,
\* then the yield of the message event (lines 172-175)
SseDeliver(st) ==
    LET o == st.obj
        msg == st.held[1]
    IN  /\ st.pc = "got"
        /\ IF msg.dumped
           THEN /\ objs' = [objs EXCEPT ![o].emitted = Append(@, msg.seq)]
                /\ streams' = (streams (-) One(st))
                                (+) One([st EXCEPT !.pc = "yielded", !.held = << >>])
           ELSE /\ objs' = objs
                /\ streams' = streams (-) One(st)
        /\ UNCHANGED <<reg, last, notifyQ, table, tasks, now, http, observe, app, subs, notified>>

\* the 60 s of wait_for pass: yield ": ping"
SseTimeout(st) ==
    /\ st.pc = "waiting"
    /\ streams' = (streams (-) One(st)) (+) One([st EXCEPT !.pc = "yielded"])
    /\ UNCHANGED <<reg, last, notifyQ, objs, table, tasks, now, http, observe, app, subs, notified>>

\* the client disconnects: the generator is cancelled where it is suspended
SseCancel(st) ==
    /\ streams' = streams (-) One(st)
    /\ UNCHANGED <<reg, last, notifyQ, objs, table, tasks, now, http, observe, app, subs, notified>>

\* App._shutdown_events (core/app.py lines 27-28): the handler is "pass".
\* The ASGI server closing down around it may or may not have ended the
\* streams and the background tasks still running.
Shutdown ==
    /\ app = "serving"
    /\ app' = "shutdown"
    /\ streams' \in {streams, EmptyBag}
    /\ tasks' \in {tasks, EmptyBag}
    /\ UNCHANGED <<reg, last, notifyQ, objs, table, now, http, observe, subs,
                   notified>>

(***************************************************************************)
(* ToolDefinition (mcp/schemas/tools.py lines 55-68). A name is modelled   *)
(* by its length and by the characters it is made of.                      *)
(***************************************************************************)
\* "x128" and "x129" stand for 128 and 129 letters, "tool\n" for a name that
\* ends in a newline
Names == {"", "x", "a.b-c_1", "bad name", "tool\n", "x128", "x129"}

NameLen(n) ==
    CASE n = "" -> 0
      [] n = "x" -> 1
      [] n = "a.b-c_1" -> 7
      [] n = "bad name" -> 8
      [] n = "tool\n" -> 5
      [] n = "x128" -> 128
      [] n = "x129" -> 129

\* every character of n is one of [A-Za-z0-9_.-]
InGrammar(n) == n \notin {"bad name", "tool\n"}

\* Field(min_length=1, max_length=128) (line 56)
FieldAccepts(n) == 1 <= NameLen(n) /\ NameLen(n) <= 128

\* re.match(r'^[a-zA-Z0-9_.-]+$', v) (line 66): "$" also matches before a
\* newline that ends the string
RegexMatches(n) == NameLen(n) >= 1 /\ (InGrammar(n) \/ n = "tool\n")

\* whether pydantic runs validate_name: the decorators of lines 62-63 are
\* @classmethod above @field_validator, so the class attribute is a
\* classmethod object, not the validator proxy pydantic collects
ValidatorCollected == FALSE

\* ToolDefinition(name=n, ...) is constructed without ValidationError
ToolDefinitionAccepts(n) ==
    FieldAccepts(n) /\ (ValidatorCollected => RegexMatches(n))

\* a Tool with definition name n is constructed and added to the tools
\* registry; a rejected name raises before the registry is reached
RegisterTool(n) ==
    IF ToolDefinitionAccepts(n)
    THEN /\ Len(reg["tools"]) < MaxNames
         /\ Add("tools", <<[id |-> n, val |-> 1]>>, FALSE)
    ELSE UNCHANGED vars

(***************************************************************************)
(* The registry on its own: every method of one LifecycleManager, called   *)
(* with every input list up to MaxBatch. The registry exercised is         *)
(* resources_templates, whose callback has no effect of its own.           *)
(***************************************************************************)
Reg0 == "resources_templates"

NextRegistry ==
    \/ \E items \in Batches, notify \in BOOLEAN : Add(Reg0, items, notify)
    \/ \E items \in Batches, notify \in BOOLEAN : Update(Reg0, items, notify)
    \/ \E items \in Batches, notify \in BOOLEAN : Upsert(Reg0, items, notify)
    \/ \E ids \in IdLists, notify \in BOOLEAN : Remove(Reg0, ids, notify)
    \/ \E items \in Batches, notify \in BOOLEAN : Override(Reg0, items, notify)
    \/ ListCall(Reg0)

SpecRegistry == Init /\ [][NextRegistry]_vars

(***************************************************************************)
(* The transport under concurrency: one client-chosen session id, opened   *)
(* by GET, used by POST, closed by DELETE and opened again; background     *)
(* tasks, SSE streams and change fan-out interleave freely.                *)
(***************************************************************************)
ToolA == [id |-> "a", val |-> 1]

\* this specification constructs one Session object fewer than the model
\* allows
RouterObjs == MaxObjs - 1

\* and opens one stream fewer
OneStream == BagCardinality(streams) < MaxStreams - 1

\* the session lifecycle: streams, pings answered in the background and
\* change fan-out on a session that is created and deleted (and, when
\* RouterObjs allows a second Session object, created again under the same id)
NextRouter ==
    \/ \E hdr \in ClientIds :
            (table[hdr] # 0 \/ Len(objs) < RouterObjs) /\ OneStream /\ HandleGet(hdr)
    \/ \E hdr \in ClientIds :
            HandlePost("application/json", Req("ping", "id1", NoParams), hdr)
    \/ \E hdr \in ClientIds : HandleDelete(hdr)
    \/ \E t \in BagToSet(tasks) : BgStart(t, "asyncgen")
    \/ \E st \in BagToSet(streams) : SseResume(st)
    \/ \E st \in BagToSet(streams) : SseGet(st)
    \/ \E st \in BagToSet(streams) : SseTimeout(st)
    \/ Upsert("tools", <<ToolA>>, TRUE)
    \/ RunNotify

SpecRouter == InitPlain /\ [][NextRouter]_vars

(***************************************************************************)
(* Message order: background tasks (a ping, a tool call that reports       *)
(* progress), change fan-out and the SSE streams of one session, in every  *)
(* interleaving.                                                           *)
(***************************************************************************)
OrderReqs ==
    {Req("ping", "id1", NoParams),
     Req("tools/call", "id2", Params("a", None, "tok"))}

NextOrder ==
    \/ \E hdr \in ClientIds : OneStream /\ HandleGet(hdr)
    \/ \E hdr \in ClientIds, req \in OrderReqs :
            HandlePost("application/json", req, hdr)
    \/ \E t \in BagToSet(tasks) : BgStart(t, "asyncgen")
    \/ \E t \in BagToSet(tasks), out \in {"progress", "result"} : ToolCallNext(t, out)
    \/ \E st \in BagToSet(streams) : SseResume(st)
    \/ \E st \in BagToSet(streams) : SseGet(st)
    \/ \E st \in BagToSet(streams) : SseTimeout(st)
    \/ Upsert("tools", <<ToolA>>, TRUE)
    \/ RunNotify

SpecOrder == InitPlain /\ [][NextOrder]_vars

(***************************************************************************)
(* The dispatcher: every method, with and without an id, with and without  *)
(* params, posted on one session and processed in the background.          *)
(***************************************************************************)
Methods ==
    {"notifications/initialized", "ping", "tools/list", "tools/call",
     "prompts/list", "prompts/get", "resources/list", "resources/read",
     "resources/templates/list", "no/such/method"}

ParamsChoices ==
    {NoParams, Params(None, None, None), Params("a", "a", None),
     Params("a", "a", "tok"), ParamsMeta("a", "a", None, NotObject)}

DispatchReqs ==
    {Req(m, id, p) : m \in Methods, id \in {None, "id7"}, p \in ParamsChoices}

\* no request is in flight and every message queued has been read
Idle ==
    /\ tasks = EmptyBag
    /\ \A o \in DOMAIN objs : objs[o].msg_queue = << >>

NextDispatch ==
    \/ \E hdr \in ClientIds : OneStream /\ HandleGet(hdr)
    \/ \E hdr \in ClientIds, id \in {None, "id7"} :
            HandlePost("application/json", Req("initialize", id, NoParams), hdr)
    \/ \E hdr \in ClientIds, req \in DispatchReqs :
            Idle /\ HandlePost("application/json", req, hdr)
    \/ \E hdr \in ClientIds \cup {None},
          ctype \in {"application/json", "text/plain"},
          body \in {Malformed("notjson"), Malformed("array"),
                    Malformed("invalid"), Req("ping", "id7", NoParams)} :
            (hdr = None \/ ctype = "text/plain" \/ body.kind # "request")
                /\ HandlePost(ctype, body, hdr)
    \/ \E t \in BagToSet(tasks), raw \in ToolReturns : BgStart(t, raw)
    \/ \E t \in BagToSet(tasks), out \in ToolOutcomes : ToolCallNext(t, out)
    \/ \E t \in BagToSet(tasks), out \in PromptOutcomes : PromptsGetDone(t, out)
    \/ \E st \in BagToSet(streams) : SseResume(st)
    \/ \E st \in BagToSet(streams) : SseGet(st)
    \/ \E r \in {"tools", "prompts", "resources"} : Add(r, <<ToolA>>, FALSE)

SpecDispatch == InitPlain /\ [][NextDispatch]_vars

(***************************************************************************)
(* The life of a session id, with the responses recorded: initialize with  *)
(* and without a session id, pings on the id before it exists, while it    *)
(* exists and after its DELETE, background tasks and change fan-out.       *)
(***************************************************************************)
Json == "application/json"

\* the Mcp-Session-Id a request carries: none, or the id the client chose
SessionHdrs == {None, "s1"}

Initialize == Req("initialize", "id0", NoParams)

Ping == Req("ping", "id1", NoParams)

\* the client posts one request at a time on a session it finds in the table
OneAtATime(body, hdr) ==
    (body.kind = "request" /\ body.method # "initialize"
        /\ hdr # None /\ table[hdr] # 0) => tasks = EmptyBag

NextSessions ==
    \/ \E hdr \in SessionHdrs, body \in {Initialize, Ping} :
            OneAtATime(body, hdr) /\ HandlePost(Json, body, hdr)
    \/ \E hdr \in SessionHdrs \ {None} : HandleDelete(hdr)
    \/ \E t \in BagToSet(tasks) : BgStart(t, "asyncgen")
    \/ Upsert("tools", <<ToolA>>, TRUE)
    \/ RunNotify

SpecSessions == InitHttp /\ [][NextSessions]_vars

(***************************************************************************)
(* POST, with the responses recorded: every content type, body and session *)
(* header on an id before and after initialize created its session, while  *)
(* the clock advances.                                                     *)
(***************************************************************************)
PostBodies ==
    {Initialize, Ping, Malformed("notjson"), Malformed("array"),
     Malformed("invalid")}

NextPost ==
    \/ \E hdr \in SessionHdrs, body \in PostBodies :
            OneAtATime(body, hdr) /\ HandlePost(Json, body, hdr)
    \/ \E hdr \in SessionHdrs : HandlePost("text/plain", Ping, hdr)
    \/ \E t \in BagToSet(tasks) : BgStart(t, "asyncgen")
    \/ Tick(1)

SpecPost == InitHttp /\ [][NextPost]_vars

(***************************************************************************)
(* The idle reaper: two sessions, created by initialize and touched by     *)
(* pings at different times, while the clock advances by SESSION_TIMEOUT   *)
(* and _monitor_sessions runs at any moment.                               *)
(***************************************************************************)
ReaperHdrs == {"s1", UuidPool[1]}

NextReaper ==
    \/ \E hdr \in {None, "s1"} : HandlePost(Json, Initialize, hdr)
    \/ \E hdr \in ReaperHdrs : OneAtATime(Ping, hdr) /\ HandlePost(Json, Ping, hdr)
    \/ \E t \in BagToSet(tasks) : BgStart(t, "asyncgen")
    \/ Tick(SESSION_TIMEOUT)
    \/ MonitorSessions

SpecReaper == InitPlain /\ [][NextReaper]_vars

(***************************************************************************)
(* Tool calls on one session: every shape of params and of progress token, *)
(* with and without an id, against every behaviour of the tool, while the  *)
(* clock advances in steps of half the tool's timeout. Calls are made one  *)
(* after the other, each under an id of its own, and a ping is answered    *)
(* while a call runs; nothing reads the queue, which therefore holds       *)
(* everything that was emitted, in order.                                  *)
(***************************************************************************)
ToolsReqs ==
    {Req("tools/call", "id2", Params("a", None, "tok")),
     Req("tools/call", "id3", ParamsMeta("a", None, None, "mtok")),
     Req("tools/call", "id4", Params("a", None, None)),
     Req("tools/call", "id5", Params("a", None, "0")),
     Req("tools/call", "id6", ParamsMeta("a", None, "", "mtok6")),
     Req("tools/call", "id7", Params("nosuch", None, None)),
     Req("tools/call", "id8", Params(None, None, None)),
     Req("tools/call", "id9", NoParams),
     Req("tools/call", None, Params("a", None, "tokn")),
     Req("tools/call", None, Params("nosuch", None, None))}

RECURSIVE CountEnvelopes(_)
CountEnvelopes(q) ==
    IF q = << >> THEN 0
    ELSE (IF Head(q).type \in Envelopes THEN 1 ELSE 0) + CountEnvelopes(Tail(q))

\* the envelopes queued on any session
RECURSIVE EnvelopesQueued(_)
EnvelopesQueued(os) ==
    IF os = << >> THEN 0
    ELSE CountEnvelopes(Head(os).msg_queue) + EnvelopesQueued(Tail(os))

\* the client has not used the id of req before
Fresh(req) ==
    /\ \A t \in BagToSet(tasks) : t.req.id # req.id
    /\ \A o \in DOMAIN objs : \A k \in DOMAIN objs[o].msg_queue :
            objs[o].msg_queue[k].type \in Envelopes
                => objs[o].msg_queue[k].id # req.id

\* this specification makes one call fewer than the model allows tasks
ToolCalls == MaxBg - 1

\* the tool is registered at startup, before the first request is served
NextTools ==
    \/ DictGet(reg["tools"], "a") # NoItem /\ HandlePost(Json, Initialize, "s1")
    \/ \E req \in ToolsReqs :
            /\ tasks = EmptyBag
            /\ Fresh(req)
            /\ EnvelopesQueued(objs) < ToolCalls
            /\ HandlePost(Json, req, "s1")
    \/ /\ tasks # EmptyBag
       /\ EnvelopesQueued(objs) = 0
       /\ HandlePost(Json, Ping, "s1")
    \/ \E t \in BagToSet(tasks), raw \in ToolReturns : BgStart(t, raw)
    \/ \E t \in BagToSet(tasks), out \in ToolOutcomes : ToolCallNext(t, out)
    \/ Add("tools", <<ToolA>>, FALSE)
    \/ tasks # EmptyBag /\ Tick(ToolTimeout \div 2)

SpecTools == InitPlain /\ [][NextTools]_vars

(***************************************************************************)
(* Change fan-out: registry calls on tools, prompts and resources, with    *)
(* and without notify, while sessions come and go. Each call of a change   *)
(* callback creates a notify_clients task; the event loop runs every task  *)
(* it holds, which is the fairness of RunNotify.                           *)
(***************************************************************************)
FanRegs == {"tools", "prompts", "resources"}

\* the model's bound on messages leaves room for the fan-out of every task
\* pending and of one more
RoomToNotify == TotalEnq(objs) + (Len(notifyQ) + 1) * MaxObjs <= MaxMsgs

NextFanout ==
    \/ \E hdr \in SessionHdrs : HandlePost(Json, Initialize, hdr)
    \/ \E hdr \in SessionHdrs \ {None} : HandleDelete(hdr)
    \/ \E r \in FanRegs, notify \in BOOLEAN :
            RoomToNotify /\ Add(r, <<ToolA>>, notify)
    \/ \E r \in FanRegs, items \in {<< >>, <<ToolA>>}, notify \in BOOLEAN :
            RoomToNotify /\ Upsert(r, items, notify)
    \/ \E r \in FanRegs, notify \in BOOLEAN :
            RoomToNotify /\ Remove(r, <<"a">>, notify)
    \/ RunNotify

SpecFanout == InitPlain /\ [][NextFanout]_vars /\ WF_vars(RunNotify)

(***************************************************************************)
(* Shutdown: sessions are created, used and read while the application     *)
(* serves; after its shutdown handler has run nothing is served any more.  *)
(***************************************************************************)
NextShutdown ==
    \/ /\ app = "serving"
       /\ \/ \E hdr \in ClientIds :
                (table[hdr] # 0 \/ Len(objs) < RouterObjs) /\ OneStream /\ HandleGet(hdr)
          \/ \E hdr \in ClientIds : OneAtATime(Ping, hdr) /\ HandlePost(Json, Ping, hdr)
          \/ \E hdr \in ClientIds : HandleDelete(hdr)
          \/ \E t \in BagToSet(tasks) : BgStart(t, "asyncgen")
          \/ \E st \in BagToSet(streams) : SseResume(st)
          \/ \E st \in BagToSet(streams) : SseGet(st)
    \/ Shutdown

SpecShutdown == InitPlain /\ [][NextShutdown]_vars

(***************************************************************************)
(* notify_clients with several subscribers: beside the router's            *)
(* _broadcast_event, handlers of every kind are subscribed in every order, *)
(* and a change of the tools is fanned out to one session.                 *)
(***************************************************************************)
NextNotify ==
    \/ \E kind \in HandlerKinds \ {"broadcast"} : Subscribe(kind)
    \/ HandlePost(Json, Initialize, "s1")
    \/ \E notify \in BOOLEAN : Upsert("tools", <<ToolA>>, notify)
    \/ NotifyClients

SpecNotify == InitPlain /\ [][NextNotify]_vars

(***************************************************************************)
(* Readers against writers: tools/list requests are answered in the        *)
(* background while the tools registry is changed by batches of two items, *)
(* in every interleaving of the tasks with the registry calls.             *)
(***************************************************************************)
ToolB == [id |-> "b", val |-> 1]

ToolA2 == [id |-> "a", val |-> 2]

ToolB2 == [id |-> "b", val |-> 2]

ListReq == Req("tools/list", "id1", NoParams)

NextAtomic ==
    \/ HandlePost(Json, Initialize, "s1")
    \/ HandlePost(Json, ListReq, "s1")
    \/ \E t \in BagToSet(tasks) : BgStart(t, "asyncgen")
    \/ Add("tools", <<ToolA, ToolB>>, FALSE)
    \/ Update("tools", <<ToolA2, ToolB2>>, FALSE)
    \/ \E items \in {<<ToolA, ToolB>>, <<ToolB2, ToolA2>>} :
            Upsert("tools", items, FALSE)
    \/ Remove("tools", <<"a", "b">>, FALSE)
    \/ \E items \in {<< >>, <<ToolA2, ToolB2>>} : Override("tools", items, FALSE)

SpecAtomic == InitPlain /\ [][NextAtomic]_vars

(***************************************************************************)
(* Tool names: tools of every name are constructed, registered and         *)
(* removed.                                                                *)
(***************************************************************************)
NextNames ==
    \/ \E n \in Names : RegisterTool(n)
    \/ \E n \in Names : Remove("tools", <<n>>, FALSE)

SpecNames == Init /\ [][NextNames]_vars

(***************************************************************************)
(* The session table: sessions are created by initialize and by GET, under *)
(* a client's id or a fresh one, deleted by DELETE and reaped when idle,   *)
(* while their streams run.                                                *)
(***************************************************************************)
NextTable ==
    \/ \E hdr \in SessionHdrs : HandlePost(Json, Initialize, hdr)
    \/ \E hdr \in SessionHdrs : OneStream /\ HandleGet(hdr)
    \/ \E hdr \in ReaperHdrs : HandleDelete(hdr)
    \/ \E st \in BagToSet(streams) : SseResume(st)
    \/ Tick(SESSION_TIMEOUT)
    \/ MonitorSessions

SpecTable == InitPlain /\ [][NextTable]_vars

(***************************************************************************)
(* Requests to completion: every method, under an id, with every shape of  *)
(* params, posted one at a time on a session that may be deleted and       *)
(* created again, against every behaviour of the tool and of the prompt.   *)
(* Nothing reads the queue. The event loop runs a task that is ready and   *)
(* the clock advances, so a timer that is due fires.                       *)
(***************************************************************************)
LiveIds == {"id7"}

LiveReqs == {Req(m, id, p) : m \in Methods, id \in LiveIds, p \in ParamsChoices}

\* n more messages can be queued
RoomFor(n) == TotalEnq(objs) + n <= MaxMsgs

\* the deadline of a call accepted now lies within the clock's range
DeadlineInRange == now + ToolTimeout <= MaxTicks * (ToolTimeout \div 2)

LiveStart == \E t \in BagToSet(tasks), raw \in ToolReturns : BgStart(t, raw)

LiveTimeout == \E t \in BagToSet(tasks) : ToolCallNext(t, "timeout")

LivePrompt ==
    \E t \in BagToSet(tasks), out \in PromptOutcomes : PromptsGetDone(t, out)

\* a task that was created runs before any time passes
LiveTick ==
    /\ tasks # EmptyBag
    /\ \A t \in BagToSet(tasks) : t.pc # "start"
    /\ Tick(ToolTimeout \div 2)

NextLive ==
    \/ Len(objs) < RouterObjs /\ HandlePost(Json, Initialize, "s1")
    \/ \E req \in LiveReqs :
            /\ tasks = EmptyBag
            /\ Fresh(req)
            /\ RoomFor(1)
            /\ DeadlineInRange
            /\ HandlePost(Json, req, "s1")
    \/ HandleDelete("s1")
    \/ LiveStart
    \/ \E t \in BagToSet(tasks), out \in ToolOutcomes \ {"timeout"} :
            (out = "progress" => RoomFor(2)) /\ ToolCallNext(t, out)
    \/ LiveTimeout
    \/ LivePrompt
    \/ \E r \in {"tools", "prompts"} : objs = << >> /\ Add(r, <<ToolA>>, FALSE)
    \/ LiveTick

SpecLive ==
    /\ InitPlain
    /\ [][NextLive]_vars
    /\ WF_vars(LiveStart)
    /\ WF_vars(LiveTimeout)
    /\ WF_vars(LivePrompt)
    /\ WF_vars(LiveTick)

(***************************************************************************)
(* Reuse of a session id: the session under "s1" is created by initialize  *)
(* or GET, deleted or reaped, and created again, while requests accepted   *)
(* on it run in the background and streams opened on it are read. The      *)
(* client numbers its requests and progress tokens by the Session object   *)
(* they are posted on, posts one request at a time and opens one stream on  *)
(* a session.                                                              *)
(***************************************************************************)
GenIds == <<"id1", "id2", "id3", "id4">>

GenToks == <<"tok1", "tok2", "tok3", "tok4">>

\* the requests posted on Session object o
ReuseReqs(o) == {Req("tools/call", GenIds[o], Params("a", None, GenToks[o]))}

\* the clock advances while the first session under the id is idle, its
\* streams waiting for a message, with a call accepted on it still running:
\* that session is the one reaped
ReuseTick ==
    /\ table["s1"] = 1
    /\ \E t \in BagToSet(tasks) : t.obj = 1 /\ t.pc = "anext"
    /\ \A st \in BagToSet(streams) : st.pc = "waiting"
    /\ Tick(SESSION_TIMEOUT)

NextReuse ==
    \/ DictGet(reg["tools"], "a") # NoItem /\ HandlePost(Json, Initialize, "s1")
    \/ /\ DictGet(reg["tools"], "a") # NoItem
       /\ \A st \in BagToSet(streams) : st.obj # table["s1"]
       /\ OneStream
       /\ HandleGet("s1")
    \/ /\ table["s1"] # 0
       /\ tasks = EmptyBag
       /\ \E req \in ReuseReqs(table["s1"]) :
                Fresh(req) /\ HandlePost(Json, req, "s1")
    \/ HandleDelete("s1")
    \/ ReuseTick
    \/ MonitorSessions
    \/ \E t \in BagToSet(tasks) : BgStart(t, "asyncgen")
    \/ \E t \in BagToSet(tasks), out \in {"progress", "result", "timeout"} :
            (out = "progress" => RoomFor(2)) /\ ToolCallNext(t, out)
    \/ \E st \in BagToSet(streams) : SseResume(st)
    \/ \E st \in BagToSet(streams) : SseGet(st)
    \/ Add("tools", <<ToolA>>, FALSE)

SpecReuse == InitPlain /\ [][NextReuse]_vars

(***************************************************************************)
(* Streams: up to MaxStreams GETs open streams on the session under "s1",  *)
(* pings posted one at a time are answered onto its queue, and the session *)
(* is deleted or reaped while its streams wait, hold a message or are at a *)
(* yield. The server keeps reading a stream's generator, the timer of      *)
(* wait_for fires, and a generator that was handed a message is resumed.   *)
(***************************************************************************)
\* the steps of the streams opened on Session object o
StreamResumeOn(o) == \E st \in BagToSet(streams) : st.obj = o /\ SseResume(st)

StreamTimeoutOn(o) == \E st \in BagToSet(streams) : st.obj = o /\ SseTimeout(st)

StreamDeliverOn(o) == \E st \in BagToSet(streams) : st.obj = o /\ SseDeliver(st)


\* the clock advances while the session is idle, its streams waiting
StreamTick ==
    /\ tasks = EmptyBag
    /\ streams # EmptyBag
    /\ \A st \in BagToSet(streams) : st.pc = "waiting"
    /\ Tick(SESSION_TIMEOUT)

NextStreams ==
    \/ Len(objs) < RouterObjs /\ HandlePost(Json, Initialize, "s1")
    \/ table["s1"] # 0 /\ HandleGet("s1")
    \/ table["s1"] # 0 /\ tasks = EmptyBag /\ HandlePost(Json, Ping, "s1")
    \/ \E t \in BagToSet(tasks) : BgStart(t, "asyncgen")
    \/ HandleDelete("s1")
    \/ StreamTick
    \/ MonitorSessions
    \/ \E o \in 1..MaxObjs : StreamResumeOn(o)
    \/ \E st \in BagToSet(streams) : SseGet(st)
    \/ \E st \in BagToSet(streams) : SseDequeue(st)
    \/ \E o \in 1..MaxObjs : StreamDeliverOn(o)
    \/ \E o \in 1..MaxObjs : StreamTimeoutOn(o)

SpecStreams ==
    /\ InitPlain
    /\ [][NextStreams]_vars
    /\ \A o \in 1..MaxObjs :
            /\ WF_vars(StreamResumeOn(o))
            /\ WF_vars(StreamTimeoutOn(o))
            /\ WF_vars(StreamDeliverOn(o))

(***************************************************************************)
(* Every method posted: initialize and every other method, with and        *)
(* without an id, with and without a session header, one request at a      *)
(* time, the answers of the earlier ones staying on the queues.            *)
(***************************************************************************)
InitializeReqs == {Req("initialize", id, NoParams) : id \in {None, "id7"}}

MethodReqs == {Req(m, id, NoParams) : m \in Methods, id \in {None, "id7"}}

\* this specification leaves two answers fewer on the queues than the model
\* allows messages
FewAnswers == TotalEnq(objs) < MaxMsgs - 2

NextMethods ==
    \/ \E hdr \in SessionHdrs, req \in InitializeReqs : HandlePost(Json, req, hdr)
    \/ \E hdr \in SessionHdrs, req \in MethodReqs :
            tasks = EmptyBag /\ FewAnswers /\ HandlePost(Json, req, hdr)
    \/ \E t \in BagToSet(tasks) : BgStart(t, "asyncgen")

SpecMethods == InitHttp /\ [][NextMethods]_vars

(***************************************************************************)
(* Vocabulary of the registry claims: the call recorded in last, the dict  *)
(* before it (last.pre) and the dict after it (reg[last.r]).               *)
(***************************************************************************)
Post == reg[last.r]

BatchIds(items) == {GetId(items[i]) : i \in DOMAIN items}

HasRepeat(items) ==
    \E i, j \in DOMAIN items : i # j /\ GetId(items[i]) = GetId(items[j])

RegistryUnchanged == Post = last.pre

\* every item of the batch is the entry under its id
StoredAll ==
    \A i \in DOMAIN last.items :
        DictGet(Post, GetId(last.items[i])) = last.items[i]

\* the entries the call does not name are what they were
OthersKept(named) ==
    \A k \in Keys(last.pre) \ named : DictGet(Post, k) = DictGet(last.pre, k)

Pos(d, k) == CHOOSE i \in DOMAIN d : d[i].key = k

FirstIdx(items, k) ==
    CHOOSE i \in DOMAIN items :
        /\ GetId(items[i]) = k
        /\ \A j \in 1..(i - 1) : GetId(items[j]) # k

Mutators == {"add", "update", "upsert", "remove", "override"}

\* C1, as stated: add raises and changes nothing when an id repeats in the
\* batch or is already a key; otherwise it stores every item, keeps the other
\* entries, and calls the callback iff notify.
C1_AddAsStated ==
    last.op = "add" =>
        IF HasRepeat(last.items) \/ BatchIds(last.items) \cap Keys(last.pre) # {}
        THEN last.raised /\ RegistryUnchanged /\ last.cb = 0
        ELSE /\ ~last.raised
             /\ StoredAll
             /\ OthersKept(BatchIds(last.items))
             /\ Keys(Post) = Keys(last.pre) \cup BatchIds(last.items)
             /\ (last.cb > 0 <=> last.notify)

\* C1, amended: as stated, except that on success the callback is called iff
\* notify is true and the batch is not empty (add([]) returns before it).
C1_Add ==
    last.op = "add" =>
        IF HasRepeat(last.items) \/ BatchIds(last.items) \cap Keys(last.pre) # {}
        THEN last.raised /\ RegistryUnchanged /\ last.cb = 0
        ELSE /\ ~last.raised
             /\ StoredAll
             /\ OthersKept(BatchIds(last.items))
             /\ Keys(Post) = Keys(last.pre) \cup BatchIds(last.items)
             /\ (last.cb > 0 <=> (last.notify /\ last.items # << >>))

\* an add whose first item is new and whose second repeats it, on a registry
\* that holds something: raised, nothing written
C1_Witness ==
    /\ last.op = "add" /\ last.raised /\ last.pre # << >>
    /\ Len(last.items) = 2
    /\ GetId(last.items[1]) \notin Keys(last.pre)
    /\ GetId(last.items[2]) = GetId(last.items[1])

\* C2, as stated: update raises and changes nothing when an id is not a key
\* or repeats in the batch; otherwise every item replaces its entry, the keys
\* stay, and the callback is called iff notify.
C2_UpdateAsStated ==
    last.op = "update" =>
        IF HasRepeat(last.items) \/ ~(BatchIds(last.items) \subseteq Keys(last.pre))
        THEN last.raised /\ RegistryUnchanged /\ last.cb = 0
        ELSE /\ ~last.raised
             /\ StoredAll
             /\ OthersKept(BatchIds(last.items))
             /\ Keys(Post) = Keys(last.pre)
             /\ (last.cb > 0 <=> last.notify)

\* C2, amended: as stated, except that on success the callback is called iff
\* notify is true and the batch is not empty (update([]) returns before it).
C2_Update ==
    last.op = "update" =>
        IF HasRepeat(last.items) \/ ~(BatchIds(last.items) \subseteq Keys(last.pre))
        THEN last.raised /\ RegistryUnchanged /\ last.cb = 0
        ELSE /\ ~last.raised
             /\ StoredAll
             /\ OthersKept(BatchIds(last.items))
             /\ Keys(Post) = Keys(last.pre)
             /\ (last.cb > 0 <=> (last.notify /\ last.items # << >>))

\* an update naming one key the registry holds and one it does not: raised
C2_Witness ==
    /\ last.op = "update" /\ last.raised
    /\ ~HasRepeat(last.items)
    /\ BatchIds(last.items) \cap Keys(last.pre) # {}
    /\ BatchIds(last.items) \ Keys(last.pre) # {}

\* C3, as stated: for every mutating call the callback is called iff the call
\* changed the registry and notify was true, and at most once.
C3_CallbackAsStated ==
    last.op \in Mutators =>
        /\ (last.cb > 0 <=> (Post # last.pre /\ last.notify))
        /\ last.cb <= 1

\* the calls that reach the on_change line
ReachesCallback ==
    /\ ~last.raised
    /\ \/ last.op \in {"add", "update", "upsert"} /\ last.items # << >>
       \/ last.op = "override"
       \/ last.op = "remove" /\ Keys(last.pre) \cap {last.ids[i] : i \in DOMAIN last.ids} # {}

\* C3, amended: the callback is called at most once per call, only when
\* notify is true, and always when the call changed the registry and notify
\* was true; it is also called, with notify true, by a successful non-empty
\* add, update or upsert and by every successful override although the
\* contents end up equal to what they were.
C3_Callback ==
    last.op \in Mutators =>
        /\ last.cb <= 1
        /\ (last.cb > 0 => last.notify)
        /\ (Post # last.pre /\ last.notify => last.cb = 1)
        /\ (last.cb > 0 <=> (last.notify /\ ReachesCallback))

\* an upsert of two items that changed the registry and called back once
C3_Witness ==
    /\ last.op = "upsert" /\ Len(last.items) = 2 /\ last.notify
    /\ Post # last.pre /\ last.cb = 1

\* C4: override with pairwise distinct ids leaves exactly the input items, in
\* input order, and calls the callback once iff notify; with a repeated id it
\* raises, keeps the previous contents and does not call back. override([])
\* with notify leaves the registry empty and calls back exactly once.
C4_Override ==
    last.op = "override" =>
        IF HasRepeat(last.items)
        THEN last.raised /\ RegistryUnchanged /\ last.cb = 0
        ELSE /\ ~last.raised
             /\ List(Post) = last.items
             /\ \A i \in DOMAIN Post : Post[i].key = GetId(last.items[i])
             /\ last.cb = (IF last.notify THEN 1 ELSE 0)
             /\ (last.items = << >> /\ last.notify => Post = << >> /\ last.cb = 1)

\* an override by one item on a registry that held another key
C4_Witness ==
    /\ last.op = "override" /\ ~last.raised /\ Len(last.items) = 1
    /\ Keys(last.pre) \ BatchIds(last.items) # {}
    /\ Keys(Post) = BatchIds(last.items)

\* C5: remove never raises, deletes exactly the ids that are keys, keeps the
\* other entries, and calls the callback once iff notify and some id was
\* removed.
C5_Remove ==
    last.op = "remove" =>
        LET named == {last.ids[i] : i \in DOMAIN last.ids}
        IN  /\ ~last.raised
            /\ Keys(Post) = Keys(last.pre) \ named
            /\ OthersKept(named)
            /\ last.cb = (IF last.notify /\ named \cap Keys(last.pre) # {}
                          THEN 1 ELSE 0)

\* a remove, with notify, of ids none of which is a key: no callback
C5_Witness ==
    /\ last.op = "remove" /\ last.notify /\ last.ids # << >>
    /\ last.pre # << >>
    /\ {last.ids[i] : i \in DOMAIN last.ids} \cap Keys(last.pre) = {}
    /\ last.cb = 0

\* C6: add([]), update([]) and remove([]) change nothing, raise nothing and
\* do not call the callback, whatever notify is.
C6_EmptyNoOp ==
    (\/ last.op \in {"add", "update"} /\ last.items = << >>
     \/ last.op = "remove" /\ last.ids = << >>)
        => RegistryUnchanged /\ ~last.raised /\ last.cb = 0

\* add([]) with notify true on a registry that holds something
C6_Witness ==
    last.op = "add" /\ last.items = << >> /\ last.notify /\ last.pre # << >>

\* the order of the keys after the last call, from the order before it
OrderKept ==
    LET old == Keys(last.pre) \cap Keys(Post)
        new == Keys(Post) \ Keys(last.pre)
    IN  /\ \A k1, k2 \in old :
            Pos(last.pre, k1) < Pos(last.pre, k2) => Pos(Post, k1) < Pos(Post, k2)
        /\ \A k1 \in old, k2 \in new : Pos(Post, k1) < Pos(Post, k2)
        /\ \A k1, k2 \in new :
            FirstIdx(last.items, k1) < FirstIdx(last.items, k2)
                => Pos(Post, k1) < Pos(Post, k2)

C7_Order ==
    /\ last.op \in {"add", "update", "upsert", "remove"} => OrderKept
    /\ last.op = "override" /\ ~last.raised =>
           \A i \in DOMAIN Post : Post[i].key = GetId(last.items[i])
    /\ last.op = "list" =>
           /\ RegistryUnchanged
           /\ Len(last.ret) = Len(Post)
           /\ \A k \in Keys(Post) : last.ret[Pos(Post, k)] = DictGet(Post, k)

\* C7: after every call the keys that stay keep their relative order, new
\* keys follow them in the order of the input list (so a key removed and
\* added again is last), override orders by its input, list() returns the
\* items in that order without changing the registry, and a list() directly
\* after a list() returns the same sequence.
C7_ListOrder ==
    /\ []C7_Order
    /\ [][last.op = "list" /\ last'.op = "list" => last'.ret = last.ret]_vars

\* an upsert that rewrote the first of two keys with a new value
C7_Witness ==
    /\ last.op = "upsert" /\ Len(last.pre) = 2 /\ Len(last.items) = 1
    /\ GetId(last.items[1]) = last.pre[1].key
    /\ last.items[1] # last.pre[1].item
    /\ Post[1].item = last.items[1]


(***************************************************************************)
(* Sessions and their queues.                                              *)
(***************************************************************************)
Queued(o) == {objs[o].msg_queue[i] : i \in DOMAIN objs[o].msg_queue}

InactiveEmpty ==
    \A o \in DOMAIN objs : ~objs[o].active => objs[o].msg_queue = << >>

StaysInactive ==
    \A o \in DOMAIN objs : ~objs[o].active => ~objs'[o].active

Increasing(q) == \A i, j \in DOMAIN q : i < j => q[i] < q[j]

\* C8: an inactive session has an empty queue in every reachable state, and
\* no step makes an inactive session active again; enqueue_message on an
\* inactive session leaves its queue empty.
C8_Terminated == []InactiveEmpty /\ [][StaysInactive]_vars

\* a terminated session on which enqueue_message was called afterwards, after
\* messages had been queued on it
C8_Witness ==
    \E o \in DOMAIN objs :
        /\ ~objs[o].active
        /\ objs[o].refused
        /\ objs[o].enq > 0
        /\ objs[o].msg_queue = << >>

\* C9: for every session the message events its SSE streams have emitted are
\* in the order in which the messages were enqueued, none emitted twice, and
\* the messages still queued were all enqueued after the emitted ones, in
\* order.
C9_EnqueueOrder ==
    \A o \in DOMAIN objs :
        LET waiting == [i \in DOMAIN objs[o].msg_queue |-> objs[o].msg_queue[i].seq]
        IN  Increasing(objs[o].emitted \o waiting)

\* a session whose streams emitted two messages of background tasks with a
\* fan-out notification enqueued between them
C9_Witness ==
    \E o \in DOMAIN objs :
        /\ Len(objs[o].emitted) >= 2
        /\ \E i \in 1..(Len(objs[o].emitted) - 1) :
               objs[o].emitted[i + 1] > objs[o].emitted[i] + 1

\* C10 as stated: no response or error envelope without an id is ever on a
\* session queue (an envelope carries the id of the request it answers, so
\* one without an id answers a notification).
C10_NotificationSilent ==
    \A o \in DOMAIN objs :
        \A m \in Queued(o) : m.type \in Envelopes => m.id # None


(***************************************************************************)
(* DELETE.                                                                 *)
(***************************************************************************)
\* a Session object created under sid has been terminated
Deleted(sid) == \E o \in DOMAIN objs : objs[o].id = sid /\ ~objs[o].active

InTable(sid) == sid # None /\ table[sid] # 0

\* C11 as stated: once a session id has been deleted, every POST carrying it
\* is answered 404.
C11_AsStated ==
    [][\A hdr \in SessionHdrs \ {None}, body \in {Initialize, Ping} :
          (Deleted(hdr) /\ HandlePost(Json, body, hdr)) => http'.status = 404]_vars

\* C11: a DELETE on a session in the table is answered 200, removes the id
\* from the table and terminates the session; while the id is not in the
\* table (no initialize POST has created it again) every POST of a request
\* other than initialize carrying it is answered 404 and changes no session,
\* table entry or task; and the queue of a terminated session stays empty
\* whatever is enqueued on it afterwards.
C11_AfterDelete ==
    /\ [][\A hdr \in SessionHdrs :
            (InTable(hdr) /\ HandleDelete(hdr)) =>
                /\ http'.status = 200
                /\ table'[hdr] = 0
                /\ ~objs'[table[hdr]].active]_vars
    /\ [][\A hdr \in SessionHdrs \ {None} :
            (~InTable(hdr) /\ HandlePost(Json, Ping, hdr)) =>
                /\ http'.status = 404
                /\ UNCHANGED <<objs, table, tasks>>]_vars
    /\ [](\A o \in DOMAIN objs :
            (~objs[o].active /\ objs[o].refused) => objs[o].msg_queue = << >>)

\* a deleted session on which a background task or the fan-out enqueued
\* afterwards, and a later POST carrying its id answered 404
C11_Witness ==
    /\ http = Response("POST", 404, 0, None)
    /\ \E o \in DOMAIN objs :
            /\ ~objs[o].active
            /\ objs[o].refused
            /\ ~InTable(objs[o].id)


(***************************************************************************)
(* The idle reaper.                                                        *)
(***************************************************************************)
Cutoff == now - SESSION_TIMEOUT

\* C12: one iteration of the reaper removes from the table and terminates
\* (inactive, queue empty) every session whose last_accessed is older than
\* now - SESSION_TIMEOUT, leaves every other session in the table exactly as
\* it was, and so leaves no session older than the cutoff in the table.
C12_ReaperTick ==
    [][MonitorSessions =>
        /\ \A sid \in AllIds :
              table[sid] # 0 =>
                 IF objs[table[sid]].last_accessed < Cutoff
                 THEN /\ table'[sid] = 0
                      /\ ~objs'[table[sid]].active
                      /\ objs'[table[sid]].msg_queue = << >>
                 ELSE /\ table'[sid] = table[sid]
                      /\ objs'[table[sid]] = objs[table[sid]]
        /\ \A sid \in AllIds :
              table'[sid] # 0 => objs'[table'[sid]].last_accessed >= Cutoff]_vars

\* the reaper has removed a session that had messages queued and kept one
\* that was last accessed exactly at the cutoff
C12_Witness ==
    \E o1, o2 \in DOMAIN objs :
        /\ ~objs[o1].active
        /\ objs[o1].enq > 0
        /\ objs[o1].last_accessed < Cutoff
        /\ table[objs[o1].id] = 0
        /\ objs[o2].active
        /\ table[objs[o2].id] = o2
        /\ objs[o2].last_accessed = Cutoff


(***************************************************************************)
(* initialize.                                                             *)
(***************************************************************************)
\* every id in the table names one active Session constructed under that id
TableSound ==
    \A sid \in AllIds :
        table[sid] # 0 =>
            /\ table[sid] \in DOMAIN objs
            /\ objs[table[sid]].id = sid
            /\ objs[table[sid]].active

\* C13: an initialize POST is answered 200 with a success payload and the
\* session id in the header; carrying an id that is in the table it leaves
\* the table and every session, queues included, as they were; carrying an
\* id that is not in the table, or none (the id is then a fresh one), it adds
\* exactly one new session under the id it returns and changes no other.
C13_InitializeIdempotent ==
    /\ []TableSound
    /\ [][\A hdr \in SessionHdrs :
            HandlePost(Json, Initialize, hdr) =>
                LET sid == http'.sid
                IN  /\ http'.status = 200 /\ http'.code = 0
                    /\ hdr # None => sid = hdr
                    /\ IF InTable(hdr)
                       THEN table' = table /\ objs' = objs
                       ELSE /\ table[sid] = 0
                            /\ \A o \in DOMAIN objs : objs[o].id = sid => hdr # None
                            /\ objs' = Append(objs, NewSession(sid, now))
                            /\ table' = [table EXCEPT ![sid] = Len(objs) + 1]]_vars

\* initialize answered on a session that already held two ping responses
C13_Witness ==
    /\ http = Response("POST", 200, 0, "s1")
    /\ reg["tools"] = << >>
    /\ table["s1"] # 0
    /\ Len(objs[table["s1"]].msg_queue) >= 2

(***************************************************************************)
(* Vocabulary of the tool-call claims: what a step appended to a session's *)
(* queue, whether it was the step of task t, and whether it ended t.       *)
(***************************************************************************)
Appended(o) ==
    SubSeq(objs'[o].msg_queue, Len(objs[o].msg_queue) + 1, Len(objs'[o].msg_queue))

ToolTasks == {t \in BagToSet(tasks) : t.req.method = "tools/call"}

StepOf(t) ==
    \/ \E raw \in ToolReturns : BgStart(t, raw)
    \/ \E out \in ToolOutcomes : ToolCallNext(t, out)

Ended(t) == tasks' = tasks (-) One(t)

IsProgress(m) == m.type = "ProgressNotification"

IsEnvelope(m) == m.type \in Envelopes

\* the positions in queue q of the envelopes that answer request id
TerminalsOf(q, id) == {k \in DOMAIN q : IsEnvelope(q[k]) /\ q[k].id = id}

\* the positions in queue q of the progress notifications of the call req
ProgressOf(q, req) ==
    {k \in DOMAIN q : IsProgress(q[k])
                        /\ q[k].text \in {req.params.token, req.params.meta} \ {None}}

\* every step of a call either ends it, appending its one envelope and nothing
\* else, or lets it go on, appending progress notifications only
OneTerminal ==
    \A t \in ToolTasks :
        StepOf(t) =>
            IF Ended(t)
            THEN /\ Len(Appended(t.obj)) = 1
                 /\ IsEnvelope(Appended(t.obj)[1])
                 /\ Appended(t.obj)[1].id = t.req.id
            ELSE \A k \in DOMAIN Appended(t.obj) : IsProgress(Appended(t.obj)[k])

\* in the queue, which nothing reads here, a call has at most one envelope,
\* none while it runs, and its progress notifications lie before it
PerCallOrder ==
    \A o \in DOMAIN objs : \A req \in ToolsReqs :
        LET q == objs[o].msg_queue
        IN  req.id # None =>
              /\ Cardinality(TerminalsOf(q, req.id)) <= 1
              /\ (\E t \in ToolTasks : t.req = req) => TerminalsOf(q, req.id) = {}
              /\ \A k \in ProgressOf(q, req) : \A e \in TerminalsOf(q, req.id) : k < e
              /\ \A k \in DOMAIN q : q[k].seq = k

\* C14: the items emitted for a tools/call are zero or more progress
\* notifications followed by exactly one terminal envelope, which ends the
\* call: nothing of the call follows it, in the emission order and in the
\* session queue alike, whatever the tool does
C14_ProgressThenTerminal == []PerCallOrder /\ [][OneTerminal]_vars

\* a call that reported progress, while a ping was answered, has ended with
\* its result
C14_Witness ==
    /\ tasks = EmptyBag
    /\ \E o \in DOMAIN objs :
          LET q == objs[o].msg_queue
          IN  /\ Len(q) = 3
              /\ IsProgress(q[1]) /\ q[1].text = "tok"
              /\ q[2].type = "JsonRpcResponse"
              /\ q[3].type = "ToolsResponse" /\ q[3].id = "id2" /\ ~q[3].isError

\* the deadline of a call is set when the tool is invoked and stays what it is
\* while the call consumes the producer
DeadlineKept ==
    \A t \in ToolTasks :
        (StepOf(t) /\ ~Ended(t)) =>
            \E t2 \in BagToSet(tasks') :
                /\ t2.req = t.req
                /\ t2.deadline = IF t.pc = "start" THEN now + ToolTimeout
                                                   ELSE t.deadline

\* the tool-level timeout envelope of request id
TimeoutEnvelope(id) ==
    ModelDump(Obj("ToolsResponse", id, 0, TRUE, "Tool execution timed out"))

\* once the deadline has passed, the one thing the call does is end with the
\* timeout envelope
TimesOutAtDeadline(t) ==
    (t.pc = "anext" /\ now >= t.deadline /\ StepOf(t)) =>
        /\ Ended(t)
        /\ Len(Appended(t.obj)) = 1
        /\ [Appended(t.obj)[1] EXCEPT !.seq = 0] = TimeoutEnvelope(t.req.id)

\* the calls that are due a response: a request without an id is a
\* notification
DueResponse == {t \in ToolTasks : t.req.id # None}

InvalidParams(req) == ~req.params.isDict \/ req.params.name = None

UnknownTool(req) == DictGet(reg["tools"], req.params.name) = NoItem

\* the step of t is one in which the call fails at tool level: the tool is
\* unknown, returns neither an async iterator nor an awaitable, raises, runs
\* into the deadline or is exhausted without a result
ToolFailure(t) ==
    \/ /\ ~InvalidParams(t.req)
       /\ \E raw \in ToolReturns :
              BgStart(t, raw) /\ (UnknownTool(t.req) \/ raw \in {"other", "raise"})
    \/ \E out \in {"stop", "raise", "timeout"} : ToolCallNext(t, out)

\* the step of t reports the failure in a success envelope with isError=true
FailureInResult(t) ==
    /\ Ended(t)
    /\ Len(Appended(t.obj)) = 1
    /\ Appended(t.obj)[1].type = "ToolsResponse"
    /\ Appended(t.obj)[1].id = t.req.id
    /\ Appended(t.obj)[1].isError

\* an error envelope appended by the step of t is the invalid-params error of
\* invalid params, and invalid params get one
ErrorOnlyInvalidParams(t) ==
    StepOf(t) =>
        /\ \A k \in DOMAIN Appended(t.obj) :
              Appended(t.obj)[k].type = "JsonRpcError"
                  => Appended(t.obj)[k].code = INVALID_PARAMS /\ InvalidParams(t.req)
        /\ InvalidParams(t.req) =>
              /\ Len(Appended(t.obj)) = 1
              /\ Appended(t.obj)[1].type = "JsonRpcError"
              /\ Appended(t.obj)[1].code = INVALID_PARAMS

Supplied(p) == {p.token, p.meta} \ {None}

\* the step of t consumes one ToolProgress element
ConsumesProgress(t) == ToolCallNext(t, "progress")

\* the element becomes one notification carrying a token of the client when
\* one was supplied, and nothing when none was
ProgressForwarded(t) ==
    IF ProgressTokenEither(t.req.params) # None
    THEN /\ Len(Appended(t.obj)) = 1
         /\ IsProgress(Appended(t.obj)[1])
         /\ Appended(t.obj)[1].text \in Supplied(t.req.params)
    ELSE Appended(t.obj) = << >>

\* C17: every ToolProgress element consumed before the terminal envelope
\* produces exactly one notifications/progress carrying the client's token
\* when a progressToken was supplied, under params.progressToken or
\* params._meta.progressToken and whatever string or integer it is, and
\* nothing when none was supplied
C17_ProgressToken ==
    [][\A t \in ToolTasks : ConsumesProgress(t) => ProgressForwarded(t)]_vars

\* the same for the calls whose params.progressToken, when present, is
\* neither 0 nor the empty string
C17_TruthyToken ==
    [][\A t \in ToolTasks :
            (ConsumesProgress(t) /\ t.req.params.token \notin Falsy \ {None})
                => ProgressForwarded(t)]_vars

(***************************************************************************)
(* Vocabulary of the POST claims: the step is the POST of body under       *)
(* header hdr; it left every session, the table and the tasks alone.       *)
(***************************************************************************)
Posts(body, hdr) == HandlePost(Json, body, hdr)

NoSessionState == UNCHANGED <<objs, table, tasks>>

\* C18: a POST whose JSON body is not an array and is no valid
\* JsonRpcRequest is answered with the invalid-request error -32600 and
\* changes no session state; the validation failure is handled
C18_InvalidRequest ==
    [][\A hdr \in SessionHdrs :
            Posts(Malformed("invalid"), hdr) =>
                /\ http'.status = 400
                /\ http'.code = INVALID_REQUEST
                /\ NoSessionState]_vars

\* what holds instead: the exception leaves the handler, the answer is the
\* framework's 500, and no session state changes
C18_Escapes ==
    [][\A hdr \in SessionHdrs :
            Posts(Malformed("invalid"), hdr) =>
                /\ http'.status = 500
                /\ NoSessionState]_vars

\* the step touched the session of hdr and changed nothing else of any
\* session: no queue, no other field, no other session
OnlyTouched(hdr) ==
    objs' = [objs EXCEPT ![table[hdr]].last_accessed = now]

\* the step scheduled exactly one background dispatch, of body on the
\* session of hdr
OneDispatch(body, hdr) == tasks' = tasks (+) One(NewTask(table[hdr], body))

\* the frame of a non-initialize POST
PostFrame(hdr) ==
    Posts(Ping, hdr) =>
        IF hdr = None
        THEN http'.status = 400 /\ NoSessionState
        ELSE IF table[hdr] = 0
        THEN http'.status = 404 /\ NoSessionState
        ELSE /\ http'.status = 202
             /\ table' = table
             /\ OnlyTouched(hdr)
             /\ OneDispatch(Ping, hdr)

\* the dispatch enqueues what process_request yields on its own session,
\* and on no other
DispatchOnOwnSession ==
    \A t \in BagToSet(tasks) :
        BgStart(t, "asyncgen") =>
            /\ Appended(t.obj) # << >>
            /\ \A k \in DOMAIN Appended(t.obj) :
                  /\ Appended(t.obj)[k].type = "JsonRpcResponse"
                  /\ Appended(t.obj)[k].id = t.req.id
            /\ \A o \in DOMAIN objs : o # t.obj => objs'[o] = objs[o]
            /\ table' = table

\* C19: a non-initialize POST without Mcp-Session-Id returns 400, with an id
\* not in the table 404, and in both cases creates no session, schedules no
\* task and changes no queue; with a known session it touches the session,
\* schedules exactly one background dispatch, whose items are enqueued on
\* that session, and returns 202 without waiting for it
C19_PostFrame ==
    [][(\A hdr \in SessionHdrs : PostFrame(hdr)) /\ DispatchOnOwnSession]_vars

\* a ping was accepted on a session created earlier, beside another session:
\* the session is touched and its dispatch is pending
C19_Witness ==
    /\ http = Response("POST", 202, 0, None)
    /\ Len(objs) = 2
    /\ table["s1"] # 0
    /\ objs[table["s1"]].last_accessed > objs[table["s1"]].created_at
    /\ objs[table["s1"]].last_accessed = now
    /\ objs[table["s1"]].msg_queue = << >>
    /\ tasks = One(NewTask(table["s1"], Ping))

(***************************************************************************)
(* Vocabulary of the fan-out claim.                                        *)
(***************************************************************************)
\* Session object o is in the table
Tabled(o) == \E sid \in AllIds : table[sid] = o

\* the step created the notify_clients task of r's callback when trig holds,
\* and none otherwise; it enqueued nothing itself
Schedules(r, trig) ==
    /\ notifyQ' = IF trig THEN Append(notifyQ, r) ELSE notifyQ
    /\ objs' = objs

\* a registry call creates one task exactly when it invokes the callback
CallSchedules ==
    \A r \in FanRegs, notify \in BOOLEAN :
        /\ Add(r, <<ToolA>>, notify)
                => Schedules(r, notify /\ "a" \notin Keys(reg[r]))
        /\ Upsert(r, <<ToolA>>, notify) => Schedules(r, notify)
        /\ Upsert(r, << >>, notify) => Schedules(r, FALSE)
        /\ Remove(r, <<"a">>, notify)
                => Schedules(r, notify /\ "a" \in Keys(reg[r]))

\* the fan-out of the oldest task puts its one notification at the end of
\* the queue of every active session in the table and touches no other
FanOutOnce ==
    RunNotify =>
        /\ notifyQ' = Tail(notifyQ)
        /\ \A o \in DOMAIN objs :
              IF Tabled(o) /\ objs[o].active
              THEN /\ Len(Appended(o)) = 1
                   /\ Appended(o)[1].type = "ChangedNotification"
                   /\ Appended(o)[1].text = Head(notifyQ)
                   /\ SubSeq(objs'[o].msg_queue, 1, Len(objs[o].msg_queue))
                          = objs[o].msg_queue
              ELSE objs'[o] = objs[o]

\* C20: each registry call on tools, prompts or resources that invokes the
\* change callback eventually causes exactly one list_changed notification
\* of its kind to be enqueued on every session that is in the table and
\* active when the fan-out runs; other sessions receive nothing, and a call
\* that invokes no callback enqueues nothing
C20_FanOut ==
    /\ [][CallSchedules /\ FanOutOnce]_vars
    /\ (notifyQ # << >>) ~> (notifyQ = << >>)

\* the two sessions in the table have each received the one notification of
\* a tools change
C20_Witness ==
    /\ notifyQ = << >>
    /\ Len(objs) = 2
    /\ \A o \in DOMAIN objs :
          /\ Tabled(o)
          /\ Len(objs[o].msg_queue) = 1
          /\ objs[o].msg_queue[1].type = "ChangedNotification"
          /\ objs[o].msg_queue[1].text = "tools"

(***************************************************************************)
(* Vocabulary of the stream claims.                                        *)
(***************************************************************************)
\* stream st goes on after the step, suspended at the yield of an event
Yielded(st) == streams' = (streams (-) One(st)) (+) One([st EXCEPT !.pc = "yielded"])

\* C21: every item placed on a session queue, by background dispatch, by
\* its error path or by change fan-out, is JSON-serializable, so the SSE
\* stream emits each item it dequeues as a message event and keeps running
C21_Serializable ==
    /\ [](\A o \in DOMAIN objs : \A k \in DOMAIN objs[o].msg_queue :
              objs[o].msg_queue[k].dumped)
    /\ [][\A st \in BagToSet(streams) :
              (SseGet(st) /\ objs[st.obj].active) =>
                  /\ Yielded(st)
                  /\ objs'[st.obj].emitted
                        = Append(objs[st.obj].emitted, Head(objs[st.obj].msg_queue).seq)]_vars

\* the same with the items of change fan-out left aside
C21_DispatchSerializable ==
    /\ [](\A o \in DOMAIN objs : \A k \in DOMAIN objs[o].msg_queue :
              objs[o].msg_queue[k].type # "ChangedNotification"
                  => objs[o].msg_queue[k].dumped)
    /\ [][\A st \in BagToSet(streams) :
              (SseGet(st) /\ objs[st.obj].active
                    /\ Head(objs[st.obj].msg_queue).type # "ChangedNotification") =>
                  /\ Yielded(st)
                  /\ objs'[st.obj].emitted
                        = Append(objs[st.obj].emitted, Head(objs[st.obj].msg_queue).seq)]_vars

(***************************************************************************)
(* The idle clock.                                                         *)
(***************************************************************************)
\* the POST of body under the id of a session in the table leaves that
\* session's last_accessed at the current time
PostTouches(body, hdr) ==
    (table[hdr] # 0 /\ Posts(body, hdr)) =>
        /\ table'[hdr] = table[hdr]
        /\ objs'[table[hdr]].last_accessed = now

\* C22: every POST that references a session, an initialize POST carrying
\* the id of an existing session included, sets its last_accessed to the
\* current time
C22_PostResetsClock ==
    [][\A hdr \in SessionHdrs \ {None} : \A body \in {Initialize, Ping} :
            PostTouches(body, hdr)]_vars

\* the same for the POSTs that are not initialize
C22_DispatchResetsClock ==
    [][\A hdr \in SessionHdrs \ {None} : PostTouches(Ping, hdr)]_vars

(***************************************************************************)
(* Shutdown.                                                               *)
(***************************************************************************)
\* session s is terminated: inactive, its queue drained
Terminated(s) == ~s.active /\ s.msg_queue = << >>

\* C23: once the server has shut down, all SSE streams have ended and every
\* session in the table is terminated (inactive, queue drained)
C23_Shutdown ==
    app = "shutdown" =>
        /\ streams = EmptyBag
        /\ \A sid \in AllIds : table[sid] # 0 => Terminated(objs[table[sid]])

\* what holds instead: shutdown leaves every session and the table as they
\* were
C23_ShutdownKeepsSessions ==
    [][Shutdown => UNCHANGED <<objs, table>>]_vars

(***************************************************************************)
(* Vocabulary of the dispatcher claims.                                    *)
(***************************************************************************)
\* the step is one of task t, in process_request
DispatchStep(t) ==
    \/ \E raw \in ToolReturns : BgStart(t, raw)
    \/ \E out \in ToolOutcomes : ToolCallNext(t, out)
    \/ \E out \in PromptOutcomes : PromptsGetDone(t, out)

\* the methods answered by a response model that requires an id
TypedMethods ==
    {"tools/list", "prompts/list", "resources/list", "resources/templates/list"}

\* the step of t is one in which a handler fails outside the tool: the prompt
\* function raises or hangs, the response model cannot be built, or reading
\* the progress token raises on a _meta that is not an object
HandlerFailure(t) ==
    \/ \E out \in {"raise", "timeout"} : PromptsGetDone(t, out)
    \/ /\ \E raw \in ToolReturns : BgStart(t, raw)
       /\ \/ t.req.method \in TypedMethods /\ t.req.id = None
          \/ /\ t.req.method = "tools/call"
             /\ t.req.params.isDict
             /\ MetaRaises(t.req.params)

\* the step appended exactly the internal-error envelope of t's request
OneInternalError(t) ==
    /\ Len(Appended(t.obj)) = 1
    /\ Appended(t.obj)[1].type = "JsonRpcError"
    /\ Appended(t.obj)[1].code = INTERNAL_ERROR
    /\ Appended(t.obj)[1].id = t.req.id

\* the step appended exactly one tool-level error envelope
OneToolError(t) ==
    /\ Len(Appended(t.obj)) = 1
    /\ Appended(t.obj)[1].type = "ToolsResponse"
    /\ Appended(t.obj)[1].isError

\* what process_request yields is a message, never an exception; a failure
\* yields one error envelope and ends the sequence
Recovered(t) ==
    /\ DispatchStep(t) =>
          /\ \A k \in DOMAIN Appended(t.obj) :
                Appended(t.obj)[k].type \in Envelopes \cup {"ProgressNotification"}
          /\ IF Ended(t)
             THEN Len(Appended(t.obj)) <= 1
             ELSE \A k \in DOMAIN Appended(t.obj) : IsProgress(Appended(t.obj)[k])
    /\ HandlerFailure(t) => Ended(t) /\ OneInternalError(t)
    /\ (t.req.method = "tools/call" /\ ToolFailure(t)) =>
          Ended(t) /\ (OneToolError(t) \/ OneInternalError(t))

\* C24: no exception escapes process_request and its sequence is finite:
\* every failure of a handler (a raising or hanging prompt function, a
\* response model that cannot be built, a _meta that is not an object, a
\* failing tool) becomes one internal-error envelope -32603 or one tool-level
\* error envelope, after which the sequence ends
C24_NoEscape == [][\A t \in BagToSet(tasks) : Recovered(t)]_vars

\* a prompts/get whose prompt function raised has been answered by the
\* internal-error envelope
C24_Witness ==
    /\ tasks = EmptyBag
    /\ \E o \in DOMAIN objs :
          /\ Len(objs[o].msg_queue) = 1
          /\ objs[o].msg_queue[1].type = "JsonRpcError"
          /\ objs[o].msg_queue[1].code = INTERNAL_ERROR
          /\ objs[o].msg_queue[1].id = "id7"
          /\ objs[o].msg_queue[1].text = "Internal Server Error"

(***************************************************************************)
(* notify_clients.                                                         *)
(***************************************************************************)
\* in the most recent run every handler was invoked, every handler that does
\* not raise completed, and no exception left notify_clients
AllInvoked ==
    /\ notified.invoked = DOMAIN notified.hs
    /\ \A i \in DOMAIN notified.hs :
          notified.hs[i] \in {"broadcast", "ok"} => i \in notified.completed
    /\ ~notified.escaped

\* C25: notify_clients invokes every subscribed handler; a handler that
\* raises prevents no other handler from being invoked and completing, and
\* its failure does not reach the caller of notify_clients
C25_HandlersIsolated == AllInvoked

\* the same when every handler that raises does so in its coroutine, not
\* when it is called
C25_CoroutinesIsolated ==
    (\A i \in DOMAIN notified.hs : notified.hs[i] # "raise_call") => AllInvoked

(***************************************************************************)
(* Readers of the registry.                                                *)
(***************************************************************************)
Range(f) == {f[i] : i \in DOMAIN f}

\* what the registry holds before and after whole batches
BatchImages == {{}, {ToolA, ToolB}, {ToolA2, ToolB2}}

\* the tools/list responses queued list the registry as one whole batch or
\* another left it
ListsWholeBatches ==
    \A o \in DOMAIN objs : \A k \in DOMAIN objs[o].msg_queue :
        objs[o].msg_queue[k].type = "ToolsResponse"
            => Range(objs[o].msg_queue[k].result) \in BatchImages

\* a tools/list is answered with the registry as it is when its task runs
ListsCurrent ==
    \A t \in BagToSet(tasks) :
        (t.req.method = "tools/list" /\ BgStart(t, "asyncgen")) =>
            /\ Len(Appended(t.obj)) = 1
            /\ Appended(t.obj)[1].result = List(reg["tools"])

\* C26: registry batches are atomic for concurrent readers: in every
\* interleaving of background dispatch with add, update, upsert, remove and
\* override, a tools/list response holds all items of a batch or none
C26_AtomicBatches == []ListsWholeBatches /\ [][ListsCurrent]_vars

\* three tools/list requests were answered between batches: before the
\* first, after the added batch and after the batch that replaced it
C26_Witness ==
    \E o \in DOMAIN objs :
        /\ Len(objs[o].msg_queue) = 3
        /\ objs[o].msg_queue[1].result = << >>
        /\ Range(objs[o].msg_queue[2].result) = {ToolA, ToolB}
        /\ Range(objs[o].msg_queue[3].result) = {ToolA2, ToolB2}

(***************************************************************************)
(* Tool names.                                                             *)
(***************************************************************************)
\* the grammar ^[A-Za-z0-9_.-]+$ with length 1..128
ValidName(n) == NameLen(n) \in 1..128 /\ InGrammar(n)

\* C27: constructing a ToolDefinition rejects every name that is empty,
\* longer than 128 characters or contains a character outside
\* [A-Za-z0-9_.-] and accepts every other, so that no tool with an invalid
\* name is ever stored in the tools registry
C27_ValidNames == \A n \in Keys(reg["tools"]) : ValidName(n)

\* what holds instead: the length bounds are enforced, the grammar is not
C27_LengthOnly ==
    /\ \A n \in Names : ToolDefinitionAccepts(n) <=> NameLen(n) \in 1..128
    /\ \A n \in Keys(reg["tools"]) : NameLen(n) \in 1..128

(***************************************************************************)
(* The session table.                                                      *)
(***************************************************************************)
\* every session stored in the table is active and stored under its own id
StoredActive ==
    \A sid \in AllIds :
        table[sid] # 0 => objs[table[sid]].active /\ objs[table[sid]].id = sid

\* a session that stops being active in this step was in the table under
\* its id and is not after the step
TerminatedWithRemoval ==
    \A o \in DOMAIN objs :
        (objs[o].active /\ ~objs'[o].active) =>
            table[objs[o].id] = o /\ table'[objs[o].id] = 0

\* C28: between any two steps every session in the table is active and
\* stored under its own id, and a step that terminates a session removes it
\* from the table
C28_TableInvariant == []StoredActive /\ [][TerminatedWithRemoval]_vars

\* a deleted or reaped session is out of the table while another session is
\* in it
C28_Witness ==
    /\ \E o \in DOMAIN objs : ~objs[o].active /\ table[objs[o].id] # o
    /\ \E sid \in AllIds : table[sid] # 0

(***************************************************************************)
(* Requests to completion.                                                 *)
(***************************************************************************)
\* a request under id accepted on Session o is being processed
Pending(o, id) == \E t \in BagToSet(tasks) : t.obj = o /\ t.req.id = id

\* the same for a request of a method that answers
PendingAnswering(o, id) ==
    \E t \in BagToSet(tasks) :
        t.obj = o /\ t.req.id = id /\ t.req.method # "notifications/initialized"

\* Session o is no longer active, or its queue holds one envelope for id
Answered(o, id) ==
    /\ o \in DOMAIN objs
    /\ ~objs[o].active \/ Cardinality(TerminalsOf(objs[o].msg_queue, id)) = 1

\* a queue holds at most one envelope for an id, none while the request is
\* being processed, and besides envelopes only progress notifications
OneEnvelopeEach ==
    \A o \in DOMAIN objs :
        /\ \A id \in LiveIds :
                /\ Cardinality(TerminalsOf(objs[o].msg_queue, id)) <= 1
                /\ Pending(o, id) => TerminalsOf(objs[o].msg_queue, id) = {}
        /\ \A k \in DOMAIN objs[o].msg_queue :
                \/ IsProgress(objs[o].msg_queue[k])
                \/ /\ IsEnvelope(objs[o].msg_queue[k])
                   /\ objs[o].msg_queue[k].id \in LiveIds

\* C29 as stated: every request with an id accepted with 202 on a session
\* that stays active eventually has exactly one envelope bearing its id on
\* that session's queue, whatever the method
C29_EveryMethodAnswered ==
    \A o \in 1..MaxObjs, id \in LiveIds : Pending(o, id) ~> Answered(o, id)

\* C29: every request with an id and a method other than
\* notifications/initialized accepted with 202 on a session that stays
\* active eventually has exactly one envelope bearing its id on that
\* session's queue, whatever the tool or the prompt does; a queue never
\* holds a second envelope for an id, and holds besides envelopes only
\* progress notifications
C29_EventuallyAnswered ==
    /\ \A o \in 1..MaxObjs, id \in LiveIds :
            PendingAnswering(o, id) ~> Answered(o, id)
    /\ []OneEnvelopeEach

\* a call that emitted progress and then never finished has been answered by
\* the timeout envelope on a session that is still active
C29_Witness ==
    \E o \in DOMAIN objs :
        /\ objs[o].active
        /\ tasks = EmptyBag
        /\ \E j, k \in DOMAIN objs[o].msg_queue :
                /\ j < k
                /\ IsProgress(objs[o].msg_queue[j])
                /\ IsEnvelope(objs[o].msg_queue[k])
                /\ objs[o].msg_queue[k].text = "Tool execution timed out"

(***************************************************************************)
(* Reuse of a session id.                                                  *)
(***************************************************************************)
\* message m answers, or reports the progress of, a request posted on
\* Session object o
PostedOn(m, o) ==
    \/ IsEnvelope(m) /\ m.id = GenIds[o]
    \/ IsProgress(m) /\ m.text = GenToks[o]

\* every message on a session's queue belongs to a request posted on that
\* Session object, and a terminated session's queue is empty
OwnMessagesOnly ==
    \A o \in DOMAIN objs :
        /\ \A k \in DOMAIN objs[o].msg_queue : PostedOn(objs[o].msg_queue[k], o)
        /\ ~objs[o].active => objs[o].msg_queue = << >>

\* a step of a stream takes messages from the queue of the Session object it
\* was opened on and leaves every other session as it was
OwnQueueOnly ==
    \A st \in BagToSet(streams) :
        (SseResume(st) \/ SseGet(st)) =>
            \A o \in DOMAIN objs : o # st.obj => objs'[o] = objs[o]

\* C30: when a session id is deleted or reaped and created again, nothing
\* produced by a request accepted on the old session and nothing left on the
\* old queue is enqueued onto or delivered from the new session, and a
\* stream opened on the old session never emits a message of the new one
C30_ReuseIsolated == []OwnMessagesOnly /\ [][OwnQueueOnly]_vars

\* the id was reused while a call accepted on the old session and a stream
\* opened on it were still running, and the new session has a message
C30_Witness ==
    \E o1, o2 \in DOMAIN objs :
        /\ o1 < o2
        /\ objs[o1].id = objs[o2].id
        /\ ~objs[o1].active
        /\ objs[o1].refused
        /\ objs[o2].active
        /\ table[objs[o2].id] = o2
        /\ objs[o2].msg_queue # << >>
        /\ \E st \in BagToSet(streams) : st.obj = o1

(***************************************************************************)
(* Streams.                                                                *)
(***************************************************************************)
\* the streams opened on Session object o
StreamsOn(o) == {st \in BagToSet(streams) : st.obj = o}

\* no message event is emitted from a session that is terminated
SilentOnceTerminated ==
    \A o \in DOMAIN objs :
        ~objs[o].active => objs'[o].emitted = objs[o].emitted

\* a stream of a terminated session does not start another wait on its queue
NoNewPoll ==
    \A o \in DOMAIN objs :
        ~objs[o].active =>
            \A st \in BagToSet(streams') :
                (st.obj = o /\ st.pc = "waiting") => st \in BagToSet(streams)

\* a terminated session's streams end
StreamsEnd ==
    \A o \in 1..MaxObjs :
        (o \in DOMAIN objs /\ ~objs[o].active /\ StreamsOn(o) # {})
            ~> (StreamsOn(o) = {})

RECURSIVE Distinct(_)
Distinct(q) ==
    IF q = << >> THEN TRUE
    ELSE (\A k \in DOMAIN Tail(q) : Tail(q)[k] # Head(q)) /\ Distinct(Tail(q))

\* every message is emitted at most once, and is not both emitted and still
\* queued or held by a stream
AtMostOnce ==
    \A o \in DOMAIN objs :
        /\ Distinct(objs[o].emitted)
        /\ \A j \in DOMAIN objs[o].emitted :
                /\ \A k \in DOMAIN objs[o].msg_queue :
                        objs[o].msg_queue[k].seq # objs[o].emitted[j]
                /\ \A st \in StreamsOn(o) :
                        st.held # << >> => st.held[1].seq # objs[o].emitted[j]

\* C31: after a session is terminated by DELETE or by the reaper, a stream
\* observing it emits no further message event, does not start another
\* 60-second wait (so it emits at most one more ping) and ends; every
\* message is emitted by at most one stream, however many GETs opened
\* streams on the session
C31_StreamAfterTerminate ==
    /\ [][SilentOnceTerminated /\ NoNewPoll]_vars
    /\ StreamsEnd
    /\ []AtMostOnce

\* what holds instead: a stream of a terminated session does not start
\* another wait and ends, and no message is emitted twice
C31_StreamEnds ==
    /\ [][NoNewPoll]_vars
    /\ StreamsEnd
    /\ []AtMostOnce

\* what holds of a stream whose queue.get() is awaited directly, as
\* wait_for does from Python 3.12 on
C31_DirectGetSilent ==
    [][(\A st \in BagToSet(streams) : ~SseDeliver(st)) => SilentOnceTerminated]_vars

(***************************************************************************)
(* initialize among the methods.                                           *)
(***************************************************************************)
\* the step left every session that existed as it was, created at most the
\* session named sid, with an empty queue, and scheduled nothing
CreatedAtMost(sid) ==
    /\ tasks' = tasks
    /\ \A o \in DOMAIN objs : objs'[o] = objs[o]
    /\ \A o \in DOMAIN objs' \ DOMAIN objs :
            /\ objs'[o].msg_queue = << >>
            /\ objs'[o].id = sid
            /\ table'[sid] = o
    /\ \A x \in AllIds \ {sid} : table'[x] = table[x]
    /\ table[sid] # 0 => table'[sid] = table[sid]

\* the ids under which the table holds a session
SessionIds == {sid \in AllIds : table[sid] # 0}

\* C32: an initialize POST is answered 200 in the HTTP response, schedules no
\* background task and enqueues nothing on any session's queue, creating at
\* most the session it names; a POST of any other method leaves the set of
\* session ids as it was
C32_InitializeSynchronous ==
    [][\A hdr \in SessionHdrs :
            /\ \A req \in InitializeReqs :
                    Posts(req, hdr) =>
                        /\ http'.status = 200
                        /\ CreatedAtMost(http'.sid)
            /\ \A req \in MethodReqs :
                    Posts(req, hdr) =>
                        {sid \in AllIds : table'[sid] # 0} = SessionIds]_vars

\* initialize was answered on a session whose queue holds the answer of an
\* earlier request, beside a session created without a header
C32_Witness ==
    /\ http.verb = "POST"
    /\ http.status = 200
    /\ http.sid = "s1"
    /\ tasks = EmptyBag
    /\ table["s1"] # 0
    /\ objs[table["s1"]].msg_queue # << >>
    /\ \E sid \in AllIds \ {"s1"} : table[sid] # 0

====
